---- MODULE Spec2Model ----
(***************************************************************************)
(* Verification model of the photogrids photo editor and photo splitter:   *)
(* the two settings stores, the interactive crop/drag controllers and the  *)
(* editor export pipeline.                                                 *)
(*                                                                         *)
(* Numbers of the program are JavaScript doubles.  They are modelled as    *)
(* exact rationals <<n, d>> (d > 0, lowest terms), so that the arithmetic  *)
(* of the source is carried out as written and not on a grid.              *)
(***************************************************************************)
EXTENDS Integers, Sequences, FiniteSets, TLC

\* ------------------------------------------------------------------------
\* Exact rational arithmetic
\* ------------------------------------------------------------------------
Abs(n) == IF n < 0 THEN -n ELSE n

RECURSIVE GCD(_, _)
GCD(a, b) == IF b = 0 THEN a ELSE GCD(b, a % b)

Q(n, d) ==
    LET s == IF d < 0 THEN -1 ELSE 1
        g == GCD(Abs(n), Abs(d))
    IN  <<(s * n) \div g, (s * d) \div g>>

I(n) == <<n, 1>>

\* sums and comparisons go through the least common denominator, products cancel
\* crosswise first, so that intermediate values stay small
QAdd(a, b) ==
    LET g == GCD(a[2], b[2])
    IN  Q(a[1] * (b[2] \div g) + b[1] * (a[2] \div g), (a[2] \div g) * b[2])
QSub(a, b) ==
    LET g == GCD(a[2], b[2])
    IN  Q(a[1] * (b[2] \div g) - b[1] * (a[2] \div g), (a[2] \div g) * b[2])
QMul(a, b) ==
    LET g1 == GCD(Abs(a[1]), b[2])
        g2 == GCD(Abs(b[1]), a[2])
    IN  IF g1 = 0 \/ g2 = 0
        THEN Q(a[1] * b[1], a[2] * b[2])
        ELSE Q((a[1] \div g1) * (b[1] \div g2), (a[2] \div g2) * (b[2] \div g1))
QDiv(a, b) == QMul(a, IF b[1] < 0 THEN <<-b[2], -b[1]>> ELSE <<b[2], b[1]>>)
QNeg(a)    == <<-a[1], a[2]>>
QLt(a, b)  == LET g == GCD(a[2], b[2]) IN a[1] * (b[2] \div g) < b[1] * (a[2] \div g)
QLe(a, b)  == LET g == GCD(a[2], b[2]) IN a[1] * (b[2] \div g) <= b[1] * (a[2] \div g)
QGt(a, b)  == QLt(b, a)
QGe(a, b)  == QLe(b, a)
QMin(a, b) == IF QLe(a, b) THEN a ELSE b
QMax(a, b) == IF QGe(a, b) THEN a ELSE b
QAbs(a)    == <<Abs(a[1]), a[2]>>
\* conversion of a non-negative double to an integer attribute (canvas.width)
QTrunc(a)  == a[1] \div a[2]

Zero    == I(0)
Hundred == I(100)

\* the doubles that are no rationals
NaN         == <<0, 0>>
Infinity    == <<1, 0>>
NegInfinity == <<-1, 0>>

\* Math.min, Math.max and <= of JavaScript: NaN is contagious and compares false
MathMin(a, b) == IF a = NaN \/ b = NaN THEN NaN ELSE QMin(a, b)
MathMax(a, b) == IF a = NaN \/ b = NaN THEN NaN ELSE QMax(a, b)
NumLe(a, b)   == a # NaN /\ b # NaN /\ QLe(a, b)

\* ------------------------------------------------------------------------
\* Program constants
\* ------------------------------------------------------------------------
MIN_ZOOM == 1
MAX_ZOOM == 3
DEFAULT_ZOOM == 1
MIN_SPLIT_COUNT == 2
MAX_SPLIT_COUNT == 5
DEFAULT_SPLIT_COUNT == 2
MIN_CROP_SIZE == 10

Rotations == {0, 90, 180, 270}

CropAspectRatios == {"free", "1:1", "16:9", "9:16", "4:3", "3:4", "3:2", "2:3"}

\* null for a number, for a string and for the image dimensions
Null == <<>>
NullStr == "null"
NullDims == [width |-> 0, height |-> 0]

ASPECT_RATIO_VALUES ==
    [k \in CropAspectRatios |->
        CASE k = "free" -> Null
          [] k = "1:1"  -> Q(1, 1)
          [] k = "16:9" -> Q(16, 9)
          [] k = "9:16" -> Q(9, 16)
          [] k = "4:3"  -> Q(4, 3)
          [] k = "3:4"  -> Q(3, 4)
          [] k = "3:2"  -> Q(3, 2)
          [] k = "2:3"  -> Q(2, 3)]

Rect(x, y, w, h) == [x |-> x, y |-> y, width |-> w, height |-> h]

DEFAULT_CROP_AREA == Rect(Zero, Zero, Hundred, Hundred)

\* ------------------------------------------------------------------------
\* Bounds of the model
\* ------------------------------------------------------------------------
\* finite setZoom inputs are k/2 for k in -MaxZoomIn .. MaxZoomIn
MaxZoomIn == 8

\* uploads, rotations, container resizes, aspect changes, split setting changes and
\* the splitter's pointer-downs per behaviour
MaxOps == 3

\* pointer-downs on the editor's crop handles per behaviour
MaxDrags == 1

\* invocations of handleExport per behaviour
MaxRuns == 1
\* curve edits before the curves are rendered
MaxCurveEdits == 2

FiniteZoomInputs == {Q(k, 2) : k \in (0 - MaxZoomIn) .. MaxZoomIn}

\* setZoom(value: number): every kind of double
ZoomInputs == FiniteZoomInputs \cup {NaN, Infinity, NegInfinity}

\* ------------------------------------------------------------------------
\* State
\* ------------------------------------------------------------------------
VARIABLES
    editorStore,    \* usePhotoEditorStore: image, transforms, crop, adjustments, curves, filters
    splitterStore,  \* useSplitterStore: imageUrl, rotation, zoom, position, cropArea, splitCount
    editor,         \* PhotoEditor.vue component refs
    splitter,       \* PhotoSplitter.vue component refs
    docListeners,   \* listeners registered on document: <<event, handler>>
    runs,           \* the invocations of PhotoEditor's handleExport, by number
    ops,            \* how many budgeted operations have run
    drags,          \* how many pointer-downs the editor's crop handles have taken
    lastPointerEvent,  \* the pointer event the document saw last
    gridStore,      \* useGridStore: rows, columns, cells, rowHeights, columnWidths
    dragHandler     \* one component's useDragHandler / useDragHandlerCumulative instance

vars == <<editorStore, splitterStore, editor, splitter, docListeners, runs, ops, drags,
          lastPointerEvent, gridStore, dragHandler>>

\* ------------------------------------------------------------------------
\* Initial state: both stores and both components as constructed
\* ------------------------------------------------------------------------
\* DEFAULT_ADJUSTMENTS, DEFAULT_FILTERS, DEFAULT_CURVES and DEFAULT_POSITION
AdjustmentKeys == {"exposure", "saturation", "brilliance", "shadows", "sharpness"}
FilterNames == {"vintage", "blackAndWhite", "sepia", "warm", "cool", "fade",
                "vignette", "grain", "blur", "invert", "posterize"}
CurveChannels == {"rgb", "red", "green", "blue"}
DEFAULT_ADJUSTMENTS == [k \in AdjustmentKeys |-> 0]
DEFAULT_FILTERS == [k \in FilterNames |-> 0]
CurvePoint(x, y) == [x |-> x, y |-> y]
DEFAULT_CURVES == [c \in CurveChannels |-> <<CurvePoint(0, 0), CurvePoint(255, 255)>>]
DEFAULT_POSITION == [x |-> Zero, y |-> Zero]

InitEditorStore ==
    [imageUrl        |-> NullStr,
     imageDimensions |-> NullDims,
     rotation        |-> 0,
     zoom            |-> I(1),
     position        |-> [x |-> Zero, y |-> Zero],
     cropArea        |-> Rect(Zero, Zero, Hundred, Hundred),
     cropAspectRatio |-> "free",
     adjustments     |-> DEFAULT_ADJUSTMENTS,
     curves          |-> DEFAULT_CURVES,
     filters         |-> DEFAULT_FILTERS]

InitSplitterStore ==
    [imageUrl   |-> NullStr,
     rotation   |-> 0,
     zoom       |-> I(DEFAULT_ZOOM),
     position   |-> DEFAULT_POSITION,
     cropArea   |-> DEFAULT_CROP_AREA,
     splitCount |-> DEFAULT_SPLIT_COUNT]

\* ------------------------------------------------------------------------
\* Store actions: rotation and zoom
\* ------------------------------------------------------------------------
\* ((rotation + 90) % 360)
RotateCwValue(r) == (r + 90) % 360

\* ((rotation - 90 + 360) % 360)
RotateCcwValue(r) == (r - 90 + 360) % 360

\* Math.max(lo, Math.min(hi, value))
ClampZoom(lo, hi, value) == MathMax(I(lo), MathMin(I(hi), value))

\* usePhotoEditorStore.setZoom
EditorZoomValue(value) == ClampZoom(1, 3, value)

\* useSplitterStore.setZoom
SplitterZoomValue(level) == ClampZoom(MIN_ZOOM, MAX_ZOOM, level)

\* ------------------------------------------------------------------------
\* PhotoEditor.vue: image bounds and crop geometry (pure functions)
\* ------------------------------------------------------------------------
\* .image-container { padding: 24px }
CONTAINER_PADDING == 24

\* container rects (getBoundingClientRect, in px) the preview box can take:
\* aspect-ratio 1/1 at full width, or cut by max-height: 75vh
Containers == {[width |-> 480, height |-> 480], [width |-> 480, height |-> 240]}

\* natural sizes of the decoded images
ImageSizes == {[width |-> 400, height |-> 400], [width |-> 800, height |-> 400]}

DefaultImageBounds == Rect(Zero, Zero, Hundred, Hundred)

\* updateImageBounds, for a mounted container and known image dimensions
ContainBounds(rect, dims, rotation) ==
    LET contentWidth  == I(rect.width - CONTAINER_PADDING - CONTAINER_PADDING)
        contentHeight == I(rect.height - CONTAINER_PADDING - CONTAINER_PADDING)
        contentRatio  == QDiv(contentWidth, contentHeight)
        imageRatio    == Q(dims.width, dims.height)
        wide          == QGt(imageRatio, contentRatio)
        displayWidth  == IF wide THEN contentWidth ELSE QMul(contentHeight, imageRatio)
        displayHeight == IF wide THEN QDiv(contentWidth, imageRatio) ELSE contentHeight
        imgOffsetX    == IF wide THEN Zero ELSE QDiv(QSub(contentWidth, displayWidth), I(2))
        imgOffsetY    == IF wide THEN QDiv(QSub(contentHeight, displayHeight), I(2)) ELSE Zero
        x0            == QAdd(I(CONTAINER_PADDING), imgOffsetX)
        y0            == QAdd(I(CONTAINER_PADDING), imgOffsetY)
        isRotated90or270 == rotation = 90 \/ rotation = 270
        centerX_px    == QAdd(x0, QDiv(displayWidth, I(2)))
        centerY_px    == QAdd(y0, QDiv(displayHeight, I(2)))
        width_px      == IF isRotated90or270 THEN displayHeight ELSE displayWidth
        height_px     == IF isRotated90or270 THEN displayWidth ELSE displayHeight
        x_px          == IF isRotated90or270 THEN QSub(centerX_px, QDiv(width_px, I(2))) ELSE x0
        y_px          == IF isRotated90or270 THEN QSub(centerY_px, QDiv(height_px, I(2))) ELSE y0
    IN  Rect(QMul(QDiv(x_px, I(rect.width)), Hundred),
             QMul(QDiv(y_px, I(rect.height)), Hundred),
             QMul(QDiv(width_px, I(rect.width)), Hundred),
             QMul(QDiv(height_px, I(rect.height)), Hundred))

\* updateImageBounds: the new value of imageBounds
UpdatedImageBounds(containerRef, rect, dims, rotation) ==
    IF ~containerRef \/ dims = NullDims
    THEN DefaultImageBounds
    ELSE ContainBounds(rect, dims, rotation)

\* constrainCropToImageBounds: the crop handed to setCropArea
ConstrainedCrop(bounds, crop) ==
    Rect(QMax(bounds.x, QMin(QSub(QAdd(bounds.x, bounds.width), crop.width), crop.x)),
         QMax(bounds.y, QMin(QSub(QAdd(bounds.y, bounds.height), crop.height), crop.y)),
         QMin(bounds.width, crop.width),
         QMin(bounds.height, crop.height))

\* the CropBounds built from imageBounds in handleCropDrag / handleAspectRatioChange
CropBoundsOf(imgBounds) ==
    [minX |-> imgBounds.x,
     minY |-> imgBounds.y,
     maxX |-> QAdd(imgBounds.x, imgBounds.width),
     maxY |-> QAdd(imgBounds.y, imgBounds.height)]

clampCropToBounds(crop, bounds) ==
    [crop EXCEPT
        !.x = QMax(bounds.minX, QMin(QSub(bounds.maxX, crop.width), crop.x)),
        !.y = QMax(bounds.minY, QMin(QSub(bounds.maxY, crop.height), crop.y))]

\* the north edge moved without taking the height along
FreeNorthKeepsHeight(crop, delta, start, bounds) ==
    LET y == QMax(bounds.minY,
                  QMin(QSub(QAdd(start.y, start.height), I(MIN_CROP_SIZE)),
                       QAdd(start.y, delta.y)))
    IN  [crop EXCEPT !.y = y]

\* the four edge rules of handleCropDragFreeEdge
FreeNorth(crop, delta, start, bounds) ==
    LET y == QMax(bounds.minY,
                  QMin(QSub(QAdd(start.y, start.height), I(MIN_CROP_SIZE)),
                       QAdd(start.y, delta.y)))
    IN  [crop EXCEPT !.y = y, !.height = QSub(start.height, QSub(y, start.y))]

FreeSouth(crop, delta, start, bounds) ==
    [crop EXCEPT !.height =
        QMax(I(MIN_CROP_SIZE), QMin(QSub(bounds.maxY, start.y), QAdd(start.height, delta.y)))]

FreeEast(crop, delta, start, bounds) ==
    [crop EXCEPT !.width =
        QMax(I(MIN_CROP_SIZE), QMin(QSub(bounds.maxX, start.x), QAdd(start.width, delta.x)))]

FreeWest(crop, delta, start, bounds) ==
    LET x == QMax(bounds.minX,
                  QMin(QSub(QAdd(start.x, start.width), I(MIN_CROP_SIZE)),
                       QAdd(start.x, delta.x)))
    IN  [crop EXCEPT !.x = x, !.width = QSub(start.width, QSub(x, start.x))]

handleCropDragFreeEdge(type, delta, start, bounds) ==
    CASE type = "n"  -> FreeNorth(start, delta, start, bounds)
      [] type = "s"  -> FreeSouth(start, delta, start, bounds)
      [] type = "e"  -> FreeEast(start, delta, start, bounds)
      [] type = "w"  -> FreeWest(start, delta, start, bounds)
      [] type = "ne" -> FreeEast(FreeNorth(start, delta, start, bounds), delta, start, bounds)
      [] type = "nw" -> FreeWest(FreeNorth(start, delta, start, bounds), delta, start, bounds)
      [] type = "se" -> FreeEast(FreeSouth(start, delta, start, bounds), delta, start, bounds)
      [] type = "sw" -> FreeWest(FreeSouth(start, delta, start, bounds), delta, start, bounds)
      [] OTHER       -> start

handleCropDragLockedVertical(type, delta, start, bounds, ratio) ==
    LET heightChange == IF type = "n" THEN QNeg(delta.y) ELSE delta.y
        newHeight0   == QMax(I(MIN_CROP_SIZE), QAdd(start.height, heightChange))
        newWidth     == QMin(QSub(bounds.maxX, bounds.minX), QMul(newHeight0, ratio))
        newHeight    == QDiv(newWidth, ratio)
    IN  Rect(QAdd(start.x, QDiv(QSub(start.width, newWidth), I(2))),
             IF type = "n" THEN QSub(QAdd(start.y, start.height), newHeight) ELSE start.y,
             newWidth,
             newHeight)

handleCropDragLockedHorizontal(type, delta, start, bounds, ratio) ==
    LET widthChange == IF type = "w" THEN QNeg(delta.x) ELSE delta.x
        newWidth0   == QMax(I(MIN_CROP_SIZE), QAdd(start.width, widthChange))
        newHeight   == QMin(QSub(bounds.maxY, bounds.minY), QDiv(newWidth0, ratio))
        newWidth    == QMul(newHeight, ratio)
    IN  Rect(IF type = "w" THEN QSub(QAdd(start.x, start.width), newWidth) ELSE start.x,
             QAdd(start.y, QDiv(QSub(start.height, newHeight), I(2))),
             newWidth,
             newHeight)

\* the driving delta of a locked corner drag
DiagonalDelta(delta, ratio) ==
    IF QGt(QAbs(delta.x), QAbs(delta.y)) THEN delta.x ELSE QMul(delta.y, ratio)

\* the corner rule without the move of the origin for the w and n handles
handleCropDragLockedCornerFromOrigin(type, delta, start, bounds, ratio) ==
    LET diagonalDelta == DiagonalDelta(delta, ratio)
        sign      == IF type = "se" \/ type = "ne" THEN I(1) ELSE I(-1)
        newWidth0 == QMax(I(MIN_CROP_SIZE), QAdd(start.width, QMul(diagonalDelta, sign)))
        maxWidth  == QSub(bounds.maxX, start.x)
        maxHeight == QSub(bounds.maxY, start.y)
        newWidth1 == IF QGt(newWidth0, maxWidth) THEN maxWidth ELSE newWidth0
        newHeight1 == QDiv(newWidth1, ratio)
        newHeight == IF QGt(newHeight1, maxHeight) THEN maxHeight ELSE newHeight1
        newWidth  == IF QGt(newHeight1, maxHeight) THEN QMul(maxHeight, ratio) ELSE newWidth1
    IN  Rect(start.x, start.y, newWidth, newHeight)

handleCropDragLockedCorner(type, delta, start, bounds, ratio) ==
    LET diagonalDelta == DiagonalDelta(delta, ratio)
        sign      == IF type = "se" \/ type = "ne" THEN I(1) ELSE I(-1)
        hasW      == type \in {"nw", "sw"}
        hasN      == type \in {"ne", "nw"}
        newWidth0 == QMax(I(MIN_CROP_SIZE), QAdd(start.width, QMul(diagonalDelta, sign)))
        newHeight0 == QDiv(newWidth0, ratio)
        maxWidth  == IF hasW THEN QSub(QAdd(start.x, start.width), bounds.minX)
                             ELSE QSub(bounds.maxX, start.x)
        maxHeight == IF hasN THEN QSub(QAdd(start.y, start.height), bounds.minY)
                             ELSE QSub(bounds.maxY, start.y)
        newWidth1  == IF QGt(newWidth0, maxWidth) THEN maxWidth ELSE newWidth0
        newHeight1 == IF QGt(newWidth0, maxWidth) THEN QDiv(maxWidth, ratio) ELSE newHeight0
        newHeight  == IF QGt(newHeight1, maxHeight) THEN maxHeight ELSE newHeight1
        newWidth   == IF QGt(newHeight1, maxHeight) THEN QMul(maxHeight, ratio) ELSE newWidth1
    IN  Rect(IF hasW THEN QSub(QAdd(start.x, start.width), newWidth) ELSE start.x,
             IF hasN THEN QSub(QAdd(start.y, start.height), newHeight) ELSE start.y,
             newWidth,
             newHeight)

\* handleCropDrag: the crop handed to setCropArea
CropDragResult(type, delta, start, imgBounds, ratio) ==
    LET bounds == CropBoundsOf(imgBounds)
    IN  IF type = "move"
        THEN clampCropToBounds(
                 [start EXCEPT !.x = QAdd(start.x, delta.x), !.y = QAdd(start.y, delta.y)],
                 bounds)
        ELSE IF ratio = Null
        THEN handleCropDragFreeEdge(type, delta, start, bounds)
        ELSE IF type \in {"n", "s"}
        THEN clampCropToBounds(handleCropDragLockedVertical(type, delta, start, bounds, ratio), bounds)
        ELSE IF type \in {"e", "w"}
        THEN clampCropToBounds(handleCropDragLockedHorizontal(type, delta, start, bounds, ratio), bounds)
        ELSE clampCropToBounds(handleCropDragLockedCorner(type, delta, start, bounds, ratio), bounds)

\* a variant that keeps the top-left corner of the crop instead of its centre
AspectRatioCropKeepsCorner(currentCrop, imgBounds, targetRatio) ==
    LET bounds       == CropBoundsOf(imgBounds)
        currentRatio == QDiv(currentCrop.width, currentCrop.height)
        tooWide      == QGt(currentRatio, targetRatio)
        newWidth     == IF tooWide THEN QMul(currentCrop.height, targetRatio) ELSE currentCrop.width
        newHeight    == IF tooWide THEN currentCrop.height ELSE QDiv(currentCrop.width, targetRatio)
    IN  Rect(QMax(bounds.minX, QMin(QSub(bounds.maxX, newWidth), currentCrop.x)),
             QMax(bounds.minY, QMin(QSub(bounds.maxY, newHeight), currentCrop.y)),
             newWidth,
             newHeight)

\* handleAspectRatioChange: the crop handed to setCropArea for a ratio other than 'free'
AspectRatioCrop(currentCrop, imgBounds, targetRatio) ==
    LET bounds       == CropBoundsOf(imgBounds)
        centerX      == QAdd(currentCrop.x, QDiv(currentCrop.width, I(2)))
        centerY      == QAdd(currentCrop.y, QDiv(currentCrop.height, I(2)))
        currentRatio == QDiv(currentCrop.width, currentCrop.height)
        tooWide      == QGt(currentRatio, targetRatio)
        newWidth     == IF tooWide THEN QMul(currentCrop.height, targetRatio) ELSE currentCrop.width
        newHeight    == IF tooWide THEN currentCrop.height ELSE QDiv(currentCrop.width, targetRatio)
        newX         == QSub(centerX, QDiv(newWidth, I(2)))
        newY         == QSub(centerY, QDiv(newHeight, I(2)))
    IN  Rect(QMax(bounds.minX, QMin(QSub(bounds.maxX, newWidth), newX)),
             QMax(bounds.minY, QMin(QSub(bounds.maxY, newHeight), newY)),
             newWidth,
             newHeight)

\* pointer delta in container percent: ((client - dragStart) / rect) * 100
PointerDelta(client, start, rect) ==
    [x |-> Q((client.x - start.x) * 100, rect.width),
     y |-> Q((client.y - start.y) * 100, rect.height)]

\* ------------------------------------------------------------------------
\* PhotoEditor.vue: component state and handlers
\* ------------------------------------------------------------------------
CropDragTypes == {"move", "n", "s", "e", "w", "ne", "nw", "se", "sw"}

\* client coordinates (px) of the pointer events
PointerDowns == {[x |-> 240, y |-> 120]}

PointerMoves ==
    {[x |-> 336, y |-> 144], [x |-> 720, y |-> -360], [x |-> -240, y |-> 600]}

\* the menu entries picked in this model
AspectChoices == {"free", "1:1", "16:9", "9:16"}

EditorCropListeners ==
    {<<"mousemove", "PhotoEditor.handleCropDrag">>, <<"mouseup", "PhotoEditor.stopCropDrag">>,
     <<"touchmove", "PhotoEditor.handleCropDrag">>, <<"touchend", "PhotoEditor.stopCropDrag">>}

InitEditor(rect) ==
    [containerRef   |-> FALSE,
     rect           |-> rect,
     imageBounds    |-> DefaultImageBounds,
     isDraggingCrop |-> FALSE,
     dragType       |-> NullStr,
     dragStart      |-> [x |-> 0, y |-> 0],
     cropStart      |-> Rect(Zero, Zero, Hundred, Hundred),
     frameRequested |-> FALSE,
     splitEnabled   |-> FALSE,
     splitCount     |-> 3,
     isExporting    |-> FALSE]

\* resetAdjustments, resetFilters, resetCurves, resetTransforms
ResetAdjustments(store) == [store EXCEPT !.adjustments = DEFAULT_ADJUSTMENTS]
ResetFilters(store) == [store EXCEPT !.filters = DEFAULT_FILTERS]
ResetCurves(store) == [store EXCEPT !.curves = DEFAULT_CURVES]
ResetTransforms(store) ==
    [store EXCEPT !.rotation = 0, !.zoom = I(1),
                  !.position = [x |-> Zero, y |-> Zero],
                  !.cropArea = Rect(Zero, Zero, Hundred, Hundred),
                  !.cropAspectRatio = "free"]

\* resetEdits without resetCurves
ResetEditsKeepsCurves(store) == ResetTransforms(ResetFilters(ResetAdjustments(store)))

\* resetEdits
ResetEdits(store) == ResetTransforms(ResetCurves(ResetFilters(ResetAdjustments(store))))

\* usePhotoEditorStore.setImage(file, url, dimensions) and clearImage()
setImage(store, url, dimensions) ==
    ResetEdits([store EXCEPT !.imageUrl = url, !.imageDimensions = dimensions])
clearImage(store) ==
    ResetEdits([store EXCEPT !.imageUrl = NullStr, !.imageDimensions = NullDims])

\* updateImageBounds(); constrainCropToImageBounds() on the given store and component
BoundsThenConstrain(store, ed) ==
    LET b == UpdatedImageBounds(ed.containerRef, ed.rect, store.imageDimensions, store.rotation)
    IN  [store |-> [store EXCEPT !.cropArea = ConstrainedCrop(b, store.cropArea)],
         ed    |-> [ed EXCEPT !.imageBounds = b]]

\* beforeUpload: setImage(file, url, dimensions); the rotation watcher runs (before the
\* container is rendered) when resetEdits changed the rotation; the container and the
\* <img> are then rendered and the image's load event requests a frame
BeforeUpload(dims) ==
    /\ ~editor.isDraggingCrop   \* the pointer is on the crop handle, not on the toolbar
    /\ ops < MaxOps
    /\ LET set == setImage(editorStore, "blob", dims)
           w   == IF editorStore.rotation # 0
                  THEN BoundsThenConstrain(set, editor)
                  ELSE [store |-> set, ed |-> editor]
       IN  /\ editorStore' = w.store
           /\ editor' = [w.ed EXCEPT !.containerRef = TRUE, !.frameRequested = TRUE]
    /\ ops' = ops + 1
    /\ UNCHANGED lastPointerEvent
    /\ UNCHANGED <<splitterStore, splitter, docListeners, runs, drags>>
    /\ UNCHANGED <<gridStore, dragHandler>>

\* onImageLoad's requestAnimationFrame callback: initializeCropToImageBounds
ImageLoadFrame ==
    /\ editor.frameRequested
    /\ LET b == UpdatedImageBounds(editor.containerRef, editor.rect,
                                   editorStore.imageDimensions, editorStore.rotation)
       IN  /\ editor' = [editor EXCEPT !.imageBounds = b, !.frameRequested = FALSE]
           /\ editorStore' = [editorStore EXCEPT !.cropArea = b]
    /\ UNCHANGED lastPointerEvent
    /\ UNCHANGED <<splitterStore, splitter, docListeners, ops, runs, drags>>
    /\ UNCHANGED <<gridStore, dragHandler>>

\* the ResizeObserver callback after the container took the size rect
ResizeObserved(rect) ==
    /\ editor.containerRef
    /\ ops < MaxOps
    /\ LET ed == [editor EXCEPT !.rect = rect]
           w  == IF editorStore.imageDimensions # NullDims
                 THEN BoundsThenConstrain(editorStore, ed)
                 ELSE [store |-> editorStore, ed |-> ed]
       IN  /\ editorStore' = w.store
           /\ editor' = w.ed
    /\ ops' = ops + 1
    /\ UNCHANGED lastPointerEvent
    /\ UNCHANGED <<splitterStore, splitter, docListeners, runs, drags>>
    /\ UNCHANGED <<gridStore, dragHandler>>

\* the watcher on editorStore.rotation
RotationWatcher(store, ed) ==
    IF store.imageUrl # NullStr
    THEN BoundsThenConstrain(store, ed)
    ELSE [store |-> store, ed |-> ed]

\* usePhotoEditorStore.rotateClockwise, then the rotation watcher
RotateClockwise ==
    /\ ~editor.isDraggingCrop   \* the pointer is on the crop handle, not on the toolbar
    /\ ops < MaxOps
    /\ LET w == RotationWatcher(
                    [editorStore EXCEPT !.rotation = RotateCwValue(editorStore.rotation)], editor)
       IN  /\ editorStore' = w.store
           /\ editor' = w.ed
    /\ ops' = ops + 1
    /\ UNCHANGED lastPointerEvent
    /\ UNCHANGED <<splitterStore, splitter, docListeners, runs, drags>>
    /\ UNCHANGED <<gridStore, dragHandler>>

\* usePhotoEditorStore.rotateCounterClockwise, then the rotation watcher
RotateCounterClockwise ==
    /\ ~editor.isDraggingCrop   \* the pointer is on the crop handle, not on the toolbar
    /\ ops < MaxOps
    /\ LET w == RotationWatcher(
                    [editorStore EXCEPT !.rotation = RotateCcwValue(editorStore.rotation)], editor)
       IN  /\ editorStore' = w.store
           /\ editor' = w.ed
    /\ ops' = ops + 1
    /\ UNCHANGED lastPointerEvent
    /\ UNCHANGED <<splitterStore, splitter, docListeners, runs, drags>>
    /\ UNCHANGED <<gridStore, dragHandler>>

\* usePhotoEditorStore.setZoom (handleZoomChange)
SetZoom(value) ==
    /\ editorStore' = [editorStore EXCEPT !.zoom = EditorZoomValue(value)]
    /\ UNCHANGED lastPointerEvent
    /\ UNCHANGED <<splitterStore, editor, splitter, docListeners, ops, runs, drags>>
    /\ UNCHANGED <<gridStore, dragHandler>>

\* handleAspectRatioChange (the menu is enabled once an image is loaded)
HandleAspectRatioChange(ratio) ==
    /\ editorStore.imageUrl # NullStr
    /\ ~editor.isDraggingCrop   \* the pointer is on the crop handle, not on the toolbar
    /\ ops < MaxOps
    /\ editorStore' =
          [editorStore EXCEPT
              !.cropAspectRatio = ratio,
              !.cropArea = IF ratio # "free"
                           THEN AspectRatioCrop(editorStore.cropArea, editor.imageBounds,
                                                ASPECT_RATIO_VALUES[ratio])
                           ELSE @]
    /\ ops' = ops + 1
    /\ UNCHANGED lastPointerEvent
    /\ UNCHANGED <<splitterStore, editor, splitter, docListeners, runs, drags>>
    /\ UNCHANGED <<gridStore, dragHandler>>

\* startCropDrag: mousedown / touchstart on a crop handle
StartCropDrag(type, client) ==
    /\ editor.containerRef
    /\ drags < MaxDrags
    /\ editor' = [editor EXCEPT !.isDraggingCrop = TRUE,
                                !.dragType = type,
                                !.dragStart = client,
                                !.cropStart = editorStore.cropArea]
    /\ docListeners' = docListeners \cup EditorCropListeners
    /\ drags' = drags + 1
    /\ lastPointerEvent' = "pointerdown"
    /\ UNCHANGED <<editorStore, splitterStore, splitter, runs, ops>>
    /\ UNCHANGED <<gridStore, dragHandler>>

\* a handleCropDrag that continues from the crop the previous pointer-move left
HandleCropDragFromCurrent(client) ==
    /\ \E ev \in {"mousemove", "touchmove"} : <<ev, "PhotoEditor.handleCropDrag">> \in docListeners
    /\ IF ~editor.isDraggingCrop \/ ~editor.containerRef \/ editor.dragType = NullStr
       THEN UNCHANGED editorStore
       ELSE editorStore' =
              [editorStore EXCEPT !.cropArea =
                  CropDragResult(editor.dragType,
                                 PointerDelta(client, editor.dragStart, editor.rect),
                                 editorStore.cropArea,
                                 editor.imageBounds,
                                 ASPECT_RATIO_VALUES[editorStore.cropAspectRatio])]
    /\ lastPointerEvent' = "pointermove"
    /\ UNCHANGED <<splitterStore, editor, splitter, docListeners, ops, runs, drags>>
    /\ UNCHANGED <<gridStore, dragHandler>>

\* handleCropDrag: mousemove / touchmove on document
HandleCropDrag(client) ==
    /\ \E ev \in {"mousemove", "touchmove"} : <<ev, "PhotoEditor.handleCropDrag">> \in docListeners
    /\ IF ~editor.isDraggingCrop \/ ~editor.containerRef \/ editor.dragType = NullStr
       THEN UNCHANGED editorStore
       ELSE editorStore' =
              [editorStore EXCEPT !.cropArea =
                  CropDragResult(editor.dragType,
                                 PointerDelta(client, editor.dragStart, editor.rect),
                                 editor.cropStart,
                                 editor.imageBounds,
                                 ASPECT_RATIO_VALUES[editorStore.cropAspectRatio])]
    /\ lastPointerEvent' = "pointermove"
    /\ UNCHANGED <<splitterStore, editor, splitter, docListeners, ops, runs, drags>>
    /\ UNCHANGED <<gridStore, dragHandler>>

\* stopCropDrag: mouseup / touchend on document
StopCropDrag ==
    /\ \E ev \in {"mouseup", "touchend"} : <<ev, "PhotoEditor.stopCropDrag">> \in docListeners
    /\ editor' = [editor EXCEPT !.isDraggingCrop = FALSE, !.dragType = NullStr]
    /\ docListeners' = docListeners \ EditorCropListeners
    /\ lastPointerEvent' = "pointerup"
    /\ UNCHANGED <<editorStore, splitterStore, splitter, ops, runs, drags>>
    /\ UNCHANGED <<gridStore, dragHandler>>

\* touchcancel during a crop drag: the component registers no listener for it
CropTouchCancel ==
    /\ editor.isDraggingCrop
    /\ lastPointerEvent' = "pointercancel"
    /\ UNCHANGED <<editorStore, splitterStore, editor, splitter, docListeners, ops, runs, drags>>
    /\ UNCHANGED <<gridStore, dragHandler>>

\* ------------------------------------------------------------------------
\* PhotoSplitter.vue and useSplitterStore: crop controller
\* ------------------------------------------------------------------------
\* getBoundingClientRect of the splitter's image container (px)
SplitterRect == [width |-> 800, height |-> 400]

SplitterCropListeners ==
    {<<"mousemove", "PhotoSplitter.handleCropDrag">>, <<"mouseup", "PhotoSplitter.stopCropDrag">>,
     <<"touchmove", "PhotoSplitter.handleCropDrag">>, <<"touchend", "PhotoSplitter.stopCropDrag">>}

InitSplitter ==
    [isDraggingCrop |-> FALSE,
     dragType       |-> NullStr,
     dragStart      |-> [x |-> 0, y |-> 0],
     cropStart      |-> Rect(Zero, Zero, Hundred, Hundred)]

\* the cases of the switch in PhotoSplitter's handleCropDrag, one edge each
SplitMove(newCrop, deltaX, deltaY, start) ==
    [newCrop EXCEPT
        !.x = QMax(Zero, QMin(QSub(Hundred, newCrop.width), QAdd(start.x, deltaX))),
        !.y = QMax(Zero, QMin(QSub(Hundred, newCrop.height), QAdd(start.y, deltaY)))]

SplitNorth(newCrop, deltaY, start) ==
    LET y == QMax(Zero, QMin(QSub(QAdd(start.y, start.height), I(10)), QAdd(start.y, deltaY)))
    IN  [newCrop EXCEPT !.y = y, !.height = QSub(start.height, QSub(y, start.y))]

\* the south edge without the cap at the bottom of the frame
SplitSouthUncapped(newCrop, deltaY, start) ==
    [newCrop EXCEPT !.height = QMax(I(10), QAdd(start.height, deltaY))]

SplitSouth(newCrop, deltaY, start) ==
    [newCrop EXCEPT !.height =
        QMax(I(10), QMin(QSub(Hundred, start.y), QAdd(start.height, deltaY)))]

SplitEast(newCrop, deltaX, start) ==
    [newCrop EXCEPT !.width =
        QMax(I(10), QMin(QSub(Hundred, start.x), QAdd(start.width, deltaX)))]

SplitWest(newCrop, deltaX, start) ==
    LET x == QMax(Zero, QMin(QSub(QAdd(start.x, start.width), I(10)), QAdd(start.x, deltaX)))
    IN  [newCrop EXCEPT !.x = x, !.width = QSub(start.width, QSub(x, start.x))]

\* PhotoSplitter's handleCropDrag: the newCrop handed to setCropArea
SplitterDragResult(type, delta, start) ==
    CASE type = "move" -> SplitMove(start, delta.x, delta.y, start)
      [] type = "n"    -> SplitNorth(start, delta.y, start)
      [] type = "s"    -> SplitSouth(start, delta.y, start)
      [] type = "e"    -> SplitEast(start, delta.x, start)
      [] type = "w"    -> SplitWest(start, delta.x, start)
      [] type = "ne"   -> SplitEast(SplitNorth(start, delta.y, start), delta.x, start)
      [] type = "nw"   -> SplitWest(SplitNorth(start, delta.y, start), delta.x, start)
      [] type = "se"   -> SplitEast(SplitSouth(start, delta.y, start), delta.x, start)
      [] type = "sw"   -> SplitWest(SplitSouth(start, delta.y, start), delta.x, start)
      [] OTHER         -> start

\* useSplitterStore.setCropArea(area) for a complete area: the stored crop
SplitterStoredCrop(area) ==
    Rect(QMax(Zero, QMin(Hundred, area.x)),
         QMax(Zero, QMin(Hundred, area.y)),
         QMax(I(10), QMin(Hundred, area.width)),
         QMax(I(10), QMin(Hundred, area.height)))

\* useSplitterStore.setImage(file, url) from beforeUpload
SplitterBeforeUpload ==
    /\ ops < MaxOps
    /\ splitterStore' = [splitterStore EXCEPT !.imageUrl = "blob",
                                              !.rotation = 0,
                                              !.zoom = I(DEFAULT_ZOOM),
                                              !.position = DEFAULT_POSITION,
                                              !.cropArea = DEFAULT_CROP_AREA]
    /\ ops' = ops + 1
    /\ UNCHANGED <<editorStore, editor, splitter, docListeners, lastPointerEvent, runs, drags>>
    /\ UNCHANGED <<gridStore, dragHandler>>

\* useSplitterStore.reset (the Reset button, enabled once an image is loaded)
SplitterReset ==
    /\ splitterStore.imageUrl # NullStr
    /\ ops < MaxOps
    /\ splitterStore' = [splitterStore EXCEPT !.imageUrl = NullStr,
                                              !.rotation = 0,
                                              !.zoom = I(DEFAULT_ZOOM),
                                              !.position = DEFAULT_POSITION,
                                              !.cropArea = DEFAULT_CROP_AREA,
                                              !.splitCount = DEFAULT_SPLIT_COUNT]
    /\ ops' = ops + 1
    /\ UNCHANGED <<editorStore, editor, splitter, docListeners, lastPointerEvent, runs, drags>>
    /\ UNCHANGED <<gridStore, dragHandler>>

\* useSplitterStore.rotateClockwise
SplitterRotateClockwise ==
    /\ splitterStore' = [splitterStore EXCEPT !.rotation = RotateCwValue(@)]
    /\ UNCHANGED <<editorStore, editor, splitter, docListeners, ops, lastPointerEvent, runs, drags>>
    /\ UNCHANGED <<gridStore, dragHandler>>

\* useSplitterStore.rotateCounterClockwise
SplitterRotateCounterClockwise ==
    /\ splitterStore' = [splitterStore EXCEPT !.rotation = RotateCcwValue(@)]
    /\ UNCHANGED <<editorStore, editor, splitter, docListeners, ops, lastPointerEvent, runs, drags>>
    /\ UNCHANGED <<gridStore, dragHandler>>

\* useSplitterStore.setZoom
SplitterSetZoom(level) ==
    /\ splitterStore' = [splitterStore EXCEPT !.zoom = SplitterZoomValue(level)]
    /\ UNCHANGED <<editorStore, editor, splitter, docListeners, ops, lastPointerEvent, runs, drags>>
    /\ UNCHANGED <<gridStore, dragHandler>>

\* PhotoSplitter's startCropDrag: mousedown / touchstart on a crop handle
SplitterStartCropDrag(type, client) ==
    /\ splitterStore.imageUrl # NullStr
    /\ ops < MaxOps
    /\ splitter' = [splitter EXCEPT !.isDraggingCrop = TRUE,
                                    !.dragType = type,
                                    !.dragStart = client,
                                    !.cropStart = splitterStore.cropArea]
    /\ docListeners' = docListeners \cup SplitterCropListeners
    /\ ops' = ops + 1
    /\ lastPointerEvent' = "pointerdown"
    /\ UNCHANGED <<editorStore, splitterStore, editor, runs, drags>>
    /\ UNCHANGED <<gridStore, dragHandler>>

\* PhotoSplitter's handleCropDrag: mousemove / touchmove on document; the container
\* exists while the store holds an image
SplitterHandleCropDrag(client) ==
    /\ \E ev \in {"mousemove", "touchmove"} : <<ev, "PhotoSplitter.handleCropDrag">> \in docListeners
    /\ IF ~splitter.isDraggingCrop \/ splitterStore.imageUrl = NullStr
       THEN UNCHANGED splitterStore
       ELSE splitterStore' =
              [splitterStore EXCEPT !.cropArea =
                  SplitterStoredCrop(
                      SplitterDragResult(splitter.dragType,
                                         PointerDelta(client, splitter.dragStart, SplitterRect),
                                         splitter.cropStart))]
    /\ lastPointerEvent' = "pointermove"
    /\ UNCHANGED <<editorStore, editor, splitter, docListeners, ops, runs, drags>>
    /\ UNCHANGED <<gridStore, dragHandler>>

\* PhotoSplitter's stopCropDrag: mouseup / touchend on document
SplitterStopCropDrag ==
    /\ \E ev \in {"mouseup", "touchend"} : <<ev, "PhotoSplitter.stopCropDrag">> \in docListeners
    /\ splitter' = [splitter EXCEPT !.isDraggingCrop = FALSE, !.dragType = NullStr]
    /\ docListeners' = docListeners \ SplitterCropListeners
    /\ lastPointerEvent' = "pointerup"
    /\ UNCHANGED <<editorStore, splitterStore, editor, ops, runs, drags>>
    /\ UNCHANGED <<gridStore, dragHandler>>

\* touchcancel during a crop drag: the component registers no listener for it
SplitterTouchCancel ==
    /\ splitter.isDraggingCrop
    /\ lastPointerEvent' = "pointercancel"
    /\ UNCHANGED <<editorStore, splitterStore, editor, splitter, docListeners, ops, runs, drags>>
    /\ UNCHANGED <<gridStore, dragHandler>>

\* ------------------------------------------------------------------------
\* Colour curves: the store's curve operations (photoEditorStore.ts) as the
\* curve editor calls them
\* ------------------------------------------------------------------------
\* the canvas coordinates a press or a drag of the curve editor reports
CurveInputs == {CurvePoint(128, 64), CurvePoint(200, 200), CurvePoint(255, 64)}

\* Math.max(0, Math.min(255, v))
ClampByte(v) == IF v < 0 THEN 0 ELSE IF v > 255 THEN 255 ELSE v

\* channelCurve.findIndex((p) => p.x > point.x), -1 when there is none
FindIndexAbove(channelCurve, x) ==
    LET S == {i \in 0 .. (Len(channelCurve) - 1) : channelCurve[i + 1].x > x}
    IN  IF S = {} THEN -1 ELSE CHOOSE i \in S : \A j \in S : i <= j

\* array.splice(index, 0, point) and array.splice(index, 1)
SpliceIn(seq, index, point) ==
    SubSeq(seq, 1, index) \o <<point>> \o SubSeq(seq, index + 1, Len(seq))
SpliceOut(seq, index) ==
    SubSeq(seq, 1, index) \o SubSeq(seq, index + 2, Len(seq))

addCurvePoint(channelCurve, point) ==
    LET insertIndex == FindIndexAbove(channelCurve, point.x)
    IN  IF insertIndex = -1
        THEN Append(channelCurve, point)
        ELSE SpliceIn(channelCurve, insertIndex, point)

\* removeCurvePoint without its guard for the first and the last point
removeCurvePointUnguarded(channelCurve, index) ==
    SpliceOut(channelCurve, index)

removeCurvePoint(channelCurve, index) ==
    IF index = 0 \/ index = Len(channelCurve) - 1
    THEN channelCurve
    ELSE SpliceOut(channelCurve, index)

updateCurvePoint(channelCurve, index, point) ==
    LET y == ClampByte(point.y)
        x == IF index = 0 THEN 0
             ELSE IF index = Len(channelCurve) - 1 THEN 255
             ELSE ClampByte(point.x)
    IN  [channelCurve EXCEPT ![index + 1] = CurvePoint(x, y)]

\* CurveEditor handleMouseDown away from every point: addCurvePoint(channel, coords)
AddCurvePoint(channel, point) ==
    /\ ops < MaxOps
    /\ editorStore' = [editorStore EXCEPT !.curves[channel] = addCurvePoint(@, point)]
    /\ ops' = ops + 1
    /\ UNCHANGED <<splitterStore, editor, splitter, docListeners, runs, drags, lastPointerEvent>>
    /\ UNCHANGED <<gridStore, dragHandler>>

\* CurveEditor handleDoubleClick on the point index: removeCurvePoint(channel, index)
RemoveCurvePoint(channel, index) ==
    /\ ops < MaxOps
    /\ index < Len(editorStore.curves[channel])
    /\ editorStore' = [editorStore EXCEPT !.curves[channel] = removeCurvePoint(@, index)]
    /\ ops' = ops + 1
    /\ UNCHANGED <<splitterStore, editor, splitter, docListeners, runs, drags, lastPointerEvent>>
    /\ UNCHANGED <<gridStore, dragHandler>>

\* CurveEditor handleMouseMove while the point index is dragged:
\* updateCurvePoint(channel, dragPointIndex, coords)
UpdateCurvePoint(channel, index, point) ==
    /\ ops < MaxOps
    /\ index < Len(editorStore.curves[channel])
    /\ editorStore' = [editorStore EXCEPT !.curves[channel] = updateCurvePoint(@, index, point)]
    /\ ops' = ops + 1
    /\ UNCHANGED <<splitterStore, editor, splitter, docListeners, runs, drags, lastPointerEvent>>
    /\ UNCHANGED <<gridStore, dragHandler>>

\* the Reset Curves button: editorStore.resetCurves
ResetCurvesClicked ==
    /\ ops < MaxOps
    /\ editorStore' = ResetCurves(editorStore)
    /\ ops' = ops + 1
    /\ UNCHANGED <<splitterStore, editor, splitter, docListeners, runs, drags, lastPointerEvent>>
    /\ UNCHANGED <<gridStore, dragHandler>>

\* ------------------------------------------------------------------------
\* Curve lookup tables (curveUtils)
\* ------------------------------------------------------------------------
\* the first i with x >= points[i].x and x <= points[i + 1].x, -1 when the loop
\* ends without a break
LutSegment(points, x) ==
    LET S == {i \in 0 .. (Len(points) - 2) :
                 x >= points[i + 1].x /\ x <= points[i + 2].x}
    IN  IF S = {} THEN -1 ELSE CHOOSE i \in S : \A j \in S : i <= j

\* generateLUT(points)[x]
LutEntry(points, x) ==
    IF Len(points) < 2 THEN Q(1, 2)
    ELSE LET i  == LutSegment(points, x)
             p1 == IF i = -1 THEN points[1] ELSE points[i + 1]
             p2 == IF i = -1 THEN points[Len(points)] ELSE points[i + 2]
         IN  IF p2.x = p1.x
             THEN Q(p1.y, 255)
             ELSE \* t = (x - p1.x) / (p2.x - p1.x); (p1.y + t * (p2.y - p1.y)) / 255
                  Q(p1.y * (p2.x - p1.x) + (x - p1.x) * (p2.y - p1.y),
                    255 * (p2.x - p1.x))

generateLUT(points) == [x \in 0 .. 255 |-> LutEntry(points, x)]

\* Math.round of a double that is no NaN: the nearest integer, halves upwards
MathRound(a) == (2 * a[1] + a[2]) \div (2 * a[2])

\* applyCurvesToCanvas with the channel curve applied before the master curve
ExportCurveValueChannelFirst(curves, channel, v) ==
    LET c == MathRound(QMul(generateLUT(curves[channel])[v], I(255)))
    IN  MathRound(QMul(generateLUT(curves["rgb"])[ClampByte(c)], I(255)))

\* applyCurvesToCanvas: the value written for the channel of a pixel whose value is v
ExportCurveValue(curves, channel, v) ==
    LET r == MathRound(QMul(generateLUT(curves["rgb"])[v], I(255)))
    IN  MathRound(QMul(generateLUT(curves[channel])[ClampByte(r)], I(255)))

\* redLUT / greenLUT / blueLUT: entry v of the table of the preview's SVG filter
\* (rgbLut.map((v) => channelLut[Math.round(v * 255)] ?? v))
PreviewCurveEntry(curves, channel, v) ==
    LET m   == generateLUT(curves["rgb"])[v]
        idx == MathRound(QMul(m, I(255)))
    IN  IF idx \in 0 .. 255 THEN generateLUT(curves[channel])[idx] ELSE m

\* the three colour channels of a pixel
ColourChannels == {"red", "green", "blue"}

\* ------------------------------------------------------------------------
\* Adjustments and filters: the sliders and the declarative filter chain
\* ------------------------------------------------------------------------
\* slider values
AdjustmentInputs == {-50, 50}
FilterInputs == {100}

\* one primitive of a filter chain: name(arg)
Primitive(fn, arg) == [fn |-> fn, arg |-> arg]

\* if (cond) filterParts.push(...)
PushIf(cond, parts) == IF cond THEN parts ELSE <<>>

\* buildCssFilterString that pushes sepia before invert
buildCssFilterStringSepiaFirst(adjustments, filters, scaleFactor) ==
    LET vintage == Q(filters["vintage"], 100)
        warm    == Q(filters["warm"], 100)
        cool    == Q(filters["cool"], 100)
        fade    == Q(filters["fade"], 100)
    IN  PushIf(adjustments["exposure"] # 0,
               <<Primitive("brightness", QAdd(I(1), Q(adjustments["exposure"], 100)))>>)
        \o PushIf(adjustments["saturation"] # 0,
               <<Primitive("saturate", QAdd(I(1), Q(adjustments["saturation"], 100)))>>)
        \o PushIf(adjustments["brilliance"] # 0,
               <<Primitive("contrast", QAdd(I(1), Q(adjustments["brilliance"], 100)))>>)
        \o PushIf(adjustments["shadows"] # 0,
               <<Primitive("brightness", QAdd(I(1), Q(adjustments["shadows"], 200)))>>)
        \o PushIf(filters["sepia"] > 0,
               <<Primitive("sepia", Q(filters["sepia"], 100))>>)
        \o PushIf(filters["invert"] > 0,
               <<Primitive("invert", Q(filters["invert"], 100))>>)
        \o PushIf(filters["blackAndWhite"] > 0,
               <<Primitive("grayscale", Q(filters["blackAndWhite"], 100))>>)
        \o PushIf(filters["vintage"] > 0,
               <<Primitive("sepia", QMul(vintage, Q(4, 10))),
                 Primitive("saturate", QSub(I(1), QMul(vintage, Q(2, 10)))),
                 Primitive("contrast", QSub(I(1), QMul(vintage, Q(1, 10))))>>)
        \o PushIf(filters["warm"] > 0,
               <<Primitive("sepia", QMul(warm, Q(3, 10))),
                 Primitive("saturate", QAdd(I(1), QMul(warm, Q(2, 10)))),
                 Primitive("brightness", QAdd(I(1), QMul(warm, Q(5, 100))))>>)
        \o PushIf(filters["cool"] > 0,
               <<Primitive("saturate", QSub(I(1), QMul(cool, Q(2, 10)))),
                 Primitive("hue-rotate", QMul(cool, I(15))),
                 Primitive("brightness", QSub(I(1), QMul(cool, Q(5, 100))))>>)
        \o PushIf(filters["fade"] > 0,
               <<Primitive("contrast", QSub(I(1), QMul(fade, Q(3, 10)))),
                 Primitive("brightness", QAdd(I(1), QMul(fade, Q(1, 10))))>>)
        \o PushIf(filters["blur"] > 0,
               <<Primitive("blur", QMul(Q(filters["blur"], 10), scaleFactor))>>)

\* buildCssFilterString(adjustments, filters, { scaleFactor }): the chain as the
\* sequence of its primitives (the string joins them with blanks)
buildCssFilterString(adjustments, filters, scaleFactor) ==
    LET vintage == Q(filters["vintage"], 100)
        warm    == Q(filters["warm"], 100)
        cool    == Q(filters["cool"], 100)
        fade    == Q(filters["fade"], 100)
    IN  PushIf(adjustments["exposure"] # 0,
               <<Primitive("brightness", QAdd(I(1), Q(adjustments["exposure"], 100)))>>)
        \o PushIf(adjustments["saturation"] # 0,
               <<Primitive("saturate", QAdd(I(1), Q(adjustments["saturation"], 100)))>>)
        \o PushIf(adjustments["brilliance"] # 0,
               <<Primitive("contrast", QAdd(I(1), Q(adjustments["brilliance"], 100)))>>)
        \o PushIf(adjustments["shadows"] # 0,
               <<Primitive("brightness", QAdd(I(1), Q(adjustments["shadows"], 200)))>>)
        \o PushIf(filters["invert"] > 0,
               <<Primitive("invert", Q(filters["invert"], 100))>>)
        \o PushIf(filters["sepia"] > 0,
               <<Primitive("sepia", Q(filters["sepia"], 100))>>)
        \o PushIf(filters["blackAndWhite"] > 0,
               <<Primitive("grayscale", Q(filters["blackAndWhite"], 100))>>)
        \o PushIf(filters["vintage"] > 0,
               <<Primitive("sepia", QMul(vintage, Q(4, 10))),
                 Primitive("saturate", QSub(I(1), QMul(vintage, Q(2, 10)))),
                 Primitive("contrast", QSub(I(1), QMul(vintage, Q(1, 10))))>>)
        \o PushIf(filters["warm"] > 0,
               <<Primitive("sepia", QMul(warm, Q(3, 10))),
                 Primitive("saturate", QAdd(I(1), QMul(warm, Q(2, 10)))),
                 Primitive("brightness", QAdd(I(1), QMul(warm, Q(5, 100))))>>)
        \o PushIf(filters["cool"] > 0,
               <<Primitive("saturate", QSub(I(1), QMul(cool, Q(2, 10)))),
                 Primitive("hue-rotate", QMul(cool, I(15))),
                 Primitive("brightness", QSub(I(1), QMul(cool, Q(5, 100))))>>)
        \o PushIf(filters["fade"] > 0,
               <<Primitive("contrast", QSub(I(1), QMul(fade, Q(3, 10)))),
                 Primitive("brightness", QAdd(I(1), QMul(fade, Q(1, 10))))>>)
        \o PushIf(filters["blur"] > 0,
               <<Primitive("blur", QMul(Q(filters["blur"], 10), scaleFactor))>>)

\* handleAdjustmentChange(key, value): a slider of the Adjustments panel (sharpness
\* has the range 0..100, the others -100..100)
HandleAdjustmentChange(key, value) ==
    /\ ops < MaxOps
    /\ key = "sharpness" => value >= 0
    /\ editorStore' = [editorStore EXCEPT !.adjustments[key] = value]
    /\ ops' = ops + 1
    /\ UNCHANGED <<splitterStore, editor, splitter, docListeners, runs, drags, lastPointerEvent>>
    /\ UNCHANGED <<gridStore, dragHandler>>

\* handleFilterChange(key, value): a slider of the Filters panel
HandleFilterChange(key, value) ==
    /\ ops < MaxOps
    /\ editorStore' = [editorStore EXCEPT !.filters[key] = value]
    /\ ops' = ops + 1
    /\ UNCHANGED <<splitterStore, editor, splitter, docListeners, runs, drags, lastPointerEvent>>
    /\ UNCHANGED <<gridStore, dragHandler>>

\* toggleFilter(filterName): a filter chip
ToggleFilter(filterName) ==
    /\ ops < MaxOps
    /\ editorStore' = [editorStore EXCEPT !.filters[filterName] = IF @ > 0 THEN 0 ELSE 50]
    /\ ops' = ops + 1
    /\ UNCHANGED <<splitterStore, editor, splitter, docListeners, runs, drags, lastPointerEvent>>
    /\ UNCHANGED <<gridStore, dragHandler>>

\* the Reset Adjustments button: editorStore.resetAdjustments
ResetAdjustmentsClicked ==
    /\ ops < MaxOps
    /\ editorStore' = ResetAdjustments(editorStore)
    /\ ops' = ops + 1
    /\ UNCHANGED <<splitterStore, editor, splitter, docListeners, runs, drags, lastPointerEvent>>
    /\ UNCHANGED <<gridStore, dragHandler>>

\* the Reset Filters button: editorStore.resetFilters
ResetFiltersClicked ==
    /\ ops < MaxOps
    /\ editorStore' = ResetFilters(editorStore)
    /\ ops' = ops + 1
    /\ UNCHANGED <<splitterStore, editor, splitter, docListeners, runs, drags, lastPointerEvent>>
    /\ UNCHANGED <<gridStore, dragHandler>>

\* ------------------------------------------------------------------------
\* Image replacement and reset in the editor store
\* ------------------------------------------------------------------------
\* isCurveModified(points, defaultPoints)
isCurveModified(points, defaultPoints) ==
    \/ Len(points) # Len(defaultPoints)
    \/ \E i \in 1 .. Len(points) :
          points[i].x # defaultPoints[i].x \/ points[i].y # defaultPoints[i].y

\* usePhotoEditorStore.setImage(file, url, dimensions)
SetImage(dims) ==
    /\ ops < MaxOps
    /\ editorStore' = setImage(editorStore, "blob", dims)
    /\ ops' = ops + 1
    /\ UNCHANGED <<splitterStore, editor, splitter, docListeners, runs, drags, lastPointerEvent>>
    /\ UNCHANGED <<gridStore, dragHandler>>

\* usePhotoEditorStore.clearImage()
ClearImage ==
    /\ ops < MaxOps
    /\ editorStore' = clearImage(editorStore)
    /\ ops' = ops + 1
    /\ UNCHANGED <<splitterStore, editor, splitter, docListeners, runs, drags, lastPointerEvent>>
    /\ UNCHANGED <<gridStore, dragHandler>>

\* usePhotoEditorStore.resetEdits(), as handleReset calls it
StoreResetEdits ==
    /\ ops < MaxOps
    /\ editorStore' = ResetEdits(editorStore)
    /\ ops' = ops + 1
    /\ UNCHANGED <<splitterStore, editor, splitter, docListeners, runs, drags, lastPointerEvent>>
    /\ UNCHANGED <<gridStore, dragHandler>>

\* the settings a session can leave in the editor store before an image is replaced
\* or a reset is invoked: each setting at its default or as its setter stores it
EditedEditorStores ==
    {[InitEditorStore EXCEPT !.imageUrl = image[1], !.imageDimensions = image[2],
                             !.rotation = rotation, !.zoom = zoom,
                             !.position = position, !.cropArea = crop,
                             !.cropAspectRatio = aspect, !.adjustments = adjustments,
                             !.filters = filters, !.curves = curves] :
        image \in {<<NullStr, NullDims>>, <<"blob", [width |-> 800, height |-> 400]>>},
        rotation \in {0, RotateCwValue(0)},
        zoom \in {I(1), EditorZoomValue(I(2))},
        position \in {DEFAULT_POSITION, [x |-> Q(25, 2), y |-> I(-5)]},
        crop \in {Rect(Zero, Zero, Hundred, Hundred), Rect(I(5), Q(55, 2), I(90), I(45))},
        aspect \in {"free", "1:1"},
        adjustments \in {DEFAULT_ADJUSTMENTS,
                         [DEFAULT_ADJUSTMENTS EXCEPT !["sharpness"] = 50],
                         [k \in AdjustmentKeys |-> IF k = "sharpness" THEN 100 ELSE -50]},
        filters \in {DEFAULT_FILTERS,
                     [DEFAULT_FILTERS EXCEPT !["blur"] = 50],
                     [k \in FilterNames |-> 100]},
        curves \in {DEFAULT_CURVES,
                    [DEFAULT_CURVES EXCEPT !["blue"] = updateCurvePoint(@, 1, CurvePoint(255, 64))],
                    [c \in CurveChannels |->
                        addCurvePoint(DEFAULT_CURVES[c], CurvePoint(128, 64))]}}

\* the same for the splitter store
EditedSplitterStores ==
    {[InitSplitterStore EXCEPT !.imageUrl = url, !.rotation = rotation, !.zoom = zoom,
                               !.position = position, !.cropArea = crop] :
        url \in {NullStr, "blob"},
        rotation \in {0, RotateCcwValue(0)},
        zoom \in {I(DEFAULT_ZOOM), SplitterZoomValue(I(3))},
        position \in {DEFAULT_POSITION, [x |-> I(-10), y |-> Q(15, 2)]},
        crop \in {DEFAULT_CROP_AREA, SplitterStoredCrop(Rect(I(20), I(30), I(50), I(5)))}}

\* ------------------------------------------------------------------------
\* PhotoEditor.vue: handleExport
\* ------------------------------------------------------------------------
\* one invocation of handleExport:
\*   pc        where the async function stands
\*   img       natural size of the image behind the URL it loads
\*   canvas    width and height of the final buffer
\*   sliceWidth, i   the loop variables of the split export
\*   widths    width attribute of every buffer encoded so far
\*   attempts  the buffers downloadImage was called with (slice numbers from 1)
\*   delivered the buffers the sink took
\*   rejected  the buffer whose hand-off the sink rejected (0: none)
\*   successes, errors   message.success / message.error calls
\*   hadImage  whether the store held an image when the call was made
\*   n         the split count the slice width was computed with
\*   rel       the crop in percent of the image bounds (relCropX .. relCropH)
\*   result    how the call ended: "returned" (resolved without a notification),
\*             "exported" (message.success), "failed" (message.error)
InitRun ==
    [pc |-> "idle", hadImage |-> FALSE, img |-> NullDims, canvas |-> NullDims, split |-> FALSE,
     n |-> 0, sliceWidth |-> Zero, i |-> 0, widths |-> <<>>, attempts |-> <<>>,
     delivered |-> <<>>, rejected |-> 0, successes |-> 0, errors |-> 0, result |-> "none",
     stages |-> <<>>, delays |-> <<>>, rel |-> Rect(Zero, Zero, Zero, Zero)]

\* relCropX, relCropY, relCropW, relCropH: the container-relative crop in percent of the
\* image-bounds rectangle
ExportRelCrop(store, imgBounds) ==
    Rect(QMax(Zero, QMul(QDiv(QSub(store.cropArea.x, imgBounds.x), imgBounds.width), Hundred)),
         QMax(Zero, QMul(QDiv(QSub(store.cropArea.y, imgBounds.y), imgBounds.height), Hundred)),
         QMin(Hundred, QMul(QDiv(store.cropArea.width, imgBounds.width), Hundred)),
         QMin(Hundred, QMul(QDiv(store.cropArea.height, imgBounds.height), Hundred)))

\* the size of the export canvas (steps before "Step 1: Draw image with transforms")
ExportCanvasSize(store, imgBounds, img) ==
    LET isRotated  == store.rotation = 90 \/ store.rotation = 270
        baseWidth  == IF isRotated THEN img.height ELSE img.width
        baseHeight == IF isRotated THEN img.width ELSE img.height
        relCropW   == QMin(Hundred, QMul(QDiv(store.cropArea.width, imgBounds.width), Hundred))
        relCropH   == QMin(Hundred, QMul(QDiv(store.cropArea.height, imgBounds.height), Hundred))
        cropWidth  == QMul(QMul(QDiv(relCropW, Hundred), I(baseWidth)), store.zoom)
        cropHeight == QMul(QMul(QDiv(relCropH, Hundred), I(baseHeight)), store.zoom)
    IN  [width |-> QTrunc(cropWidth), height |-> QTrunc(cropHeight)]

\* sliceCanvas.width = sliceWidth: the width attribute of a slice buffer
SliceCanvasWidth(sliceWidth) == QTrunc(sliceWidth)

\* the finally block
ExportFinally(ed) == [ed EXCEPT !.isExporting = FALSE]

\* handleSplitEnabledChange
HandleSplitEnabledChange(checked) ==
    /\ ops < MaxOps
    /\ editor' = [editor EXCEPT !.splitEnabled = checked]
    /\ ops' = ops + 1
    /\ UNCHANGED <<editorStore, splitterStore, splitter, docListeners, runs, lastPointerEvent, drags>>
    /\ UNCHANGED <<gridStore, dragHandler>>

\* handleSplitCountChange
HandleSplitCountChange(value) ==
    /\ ops < MaxOps
    /\ editor' = [editor EXCEPT !.splitCount = value]
    /\ ops' = ops + 1
    /\ UNCHANGED <<editorStore, splitterStore, splitter, docListeners, runs, lastPointerEvent, drags>>
    /\ UNCHANGED <<gridStore, dragHandler>>

\* handleExport up to its first await
HandleExport(r) ==
    /\ runs[r].pc = "idle"
    /\ \A q \in 1 .. (r - 1) : runs[q].pc = "done"   \* the Export button is loading meanwhile
    /\ IF editorStore.imageUrl = NullStr
       THEN /\ runs' = [runs EXCEPT ![r].pc = "done", ![r].result = "returned"]
            /\ UNCHANGED editor
       ELSE /\ runs' = [runs EXCEPT ![r].pc = "loading", ![r].hadImage = TRUE,
                                    ![r].img = editorStore.imageDimensions]
            /\ editor' = [editor EXCEPT !.isExporting = TRUE]
    /\ UNCHANGED <<editorStore, splitterStore, splitter, docListeners, ops, lastPointerEvent, drags>>
    /\ UNCHANGED <<gridStore, dragHandler>>

\* img.onerror: the catch block and the finally block
\* handleExport (exposed by defineExpose) invoked while an earlier run is still in
\* flight: the function has no test of isExporting
HandleExportAgain(r) ==
    /\ runs[r].pc = "idle"
    /\ \A q \in 1 .. (r - 1) : runs[q].pc # "idle"
    /\ \E q \in 1 .. (r - 1) : runs[q].pc # "done"
    /\ IF editorStore.imageUrl = NullStr
       THEN /\ runs' = [runs EXCEPT ![r].pc = "done", ![r].result = "returned"]
            /\ UNCHANGED editor
       ELSE /\ runs' = [runs EXCEPT ![r].pc = "loading", ![r].hadImage = TRUE,
                                    ![r].img = editorStore.imageDimensions]
            /\ editor' = [editor EXCEPT !.isExporting = TRUE]
    /\ UNCHANGED <<editorStore, splitterStore, splitter, docListeners, ops, lastPointerEvent, drags>>
    /\ UNCHANGED <<gridStore, dragHandler>>

ImageLoadFailed(r) ==
    /\ runs[r].pc = "loading"
    /\ runs' = [runs EXCEPT ![r].pc = "done", ![r].errors = @ + 1, ![r].result = "failed"]
    /\ editor' = ExportFinally(editor)
    /\ UNCHANGED <<editorStore, splitterStore, splitter, docListeners, ops, lastPointerEvent, drags>>
    /\ UNCHANGED <<gridStore, dragHandler>>

\* hasCurveChanges
hasCurveChanges(store) ==
    \E c \in CurveChannels : isCurveModified(store.curves[c], DEFAULT_CURVES[c])

\* one stage of the export that wrote to the canvas, with the filter chain it applied
Stage(name, chain) == [stage |-> name, chain |-> chain]

\* Math.max(1, Math.max(canvas.width, canvas.height) / 600)
ExportScaleFactor(canvas) ==
    QMax(I(1), Q(IF canvas.width > canvas.height THEN canvas.width ELSE canvas.height, 600))

\* steps 1 to 6 with the blur left in the filters of step 2
ExportStagesBlurInChain(store, canvas) ==
    LET scaleFactor  == ExportScaleFactor(canvas)
        filterString == buildCssFilterString(store.adjustments, store.filters, I(1))
        scaledBlur   == QMul(Q(store.filters["blur"], 10), scaleFactor)
        intensity    == Q(store.adjustments["sharpness"], 100)
    IN  <<Stage("draw", <<>>)>>
        \o PushIf(filterString # <<>>, <<Stage("filter", filterString)>>)
        \o PushIf(store.filters["blur"] > 0,
                  <<Stage("blur", <<Primitive("blur", scaledBlur)>>)>>)
        \o PushIf(hasCurveChanges(store), <<Stage("curves", <<>>)>>)
        \o PushIf(~(store.filters["posterize"] <= 0), <<Stage("posterize", <<>>)>>)
        \o PushIf(~(store.filters["grain"] <= 0), <<Stage("grain", <<>>)>>)
        \o PushIf(~(store.filters["vignette"] <= 0), <<Stage("vignette", <<>>)>>)
        \o PushIf(store.adjustments["sharpness"] > 0,
                  <<Stage("sharpness",
                          <<Primitive("contrast", QAdd(I(1), QMul(intensity, Q(15, 100))))>>)>>)

\* steps 1 to 6 of handleExport: the stages that write to the canvas, in the order in
\* which they run (a step whose condition fails, and an effect that returns at
\* intensity <= 0, writes nothing)
ExportStages(store, canvas) ==
    LET scaleFactor        == ExportScaleFactor(canvas)
        filtersWithoutBlur == [store.filters EXCEPT !["blur"] = 0]
        filterString       == buildCssFilterString(store.adjustments, filtersWithoutBlur, I(1))
        scaledBlur         == QMul(Q(store.filters["blur"], 10), scaleFactor)
        intensity          == Q(store.adjustments["sharpness"], 100)
    IN  <<Stage("draw", <<>>)>>
        \o PushIf(filterString # <<>>, <<Stage("filter", filterString)>>)
        \o PushIf(store.filters["blur"] > 0,
                  <<Stage("blur", <<Primitive("blur", scaledBlur)>>)>>)
        \o PushIf(hasCurveChanges(store), <<Stage("curves", <<>>)>>)
        \o PushIf(~(store.filters["posterize"] <= 0), <<Stage("posterize", <<>>)>>)
        \o PushIf(~(store.filters["grain"] <= 0), <<Stage("grain", <<>>)>>)
        \o PushIf(~(store.filters["vignette"] <= 0), <<Stage("vignette", <<>>)>>)
        \o PushIf(store.adjustments["sharpness"] > 0,
                  <<Stage("sharpness",
                          <<Primitive("contrast", QAdd(I(1), QMul(intensity, Q(15, 100))))>>)>>)

\* img.onload: steps 1 to 6 on the canvas, then the first buffer is encoded and
\* handed to downloadImage
ImageLoaded(r) ==
    /\ runs[r].pc = "loading"
    /\ LET canvas == ExportCanvasSize(editorStore, editor.imageBounds, runs[r].img)
           split  == editor.splitEnabled /\ editor.splitCount > 1
           sliceWidth == Q(canvas.width, editor.splitCount)
       IN  runs' = [runs EXCEPT
                       ![r].pc = "handoff",
                       ![r].canvas = canvas,
                       ![r].split = split,
                       ![r].n = IF split THEN editor.splitCount ELSE 0,
                       ![r].sliceWidth = IF split THEN sliceWidth ELSE Zero,
                       ![r].i = 0,
                       ![r].widths = IF split THEN <<SliceCanvasWidth(sliceWidth)>>
                                              ELSE <<canvas.width>>,
                       ![r].attempts = <<1>>,
                       ![r].rel = ExportRelCrop(editorStore, editor.imageBounds),
                       ![r].stages = ExportStages(editorStore, canvas)
                                         \o <<Stage("encode", <<>>)>>]
    /\ UNCHANGED <<editorStore, splitterStore, editor, splitter, docListeners, ops, lastPointerEvent, drags>>
    /\ UNCHANGED <<gridStore, dragHandler>>

\* message.success and the finally block
ExportSucceeded(r) ==
    /\ runs' = [runs EXCEPT ![r].pc = "done", ![r].successes = @ + 1, ![r].result = "exported",
                            ![r].delivered = Append(@, runs[r].i + 1)]
    /\ editor' = ExportFinally(editor)

\* await downloadImage(...) resolves
HandOffResolved(r) ==
    /\ runs[r].pc = "handoff"
    /\ IF runs[r].split /\ runs[r].i < editor.splitCount - 1
       THEN /\ runs' = [runs EXCEPT ![r].pc = "delay",
                                    ![r].delivered = Append(@, runs[r].i + 1),
                                    ![r].delays = Append(@, runs[r].i + 1)]
            /\ UNCHANGED editor
       ELSE ExportSucceeded(r)
    /\ UNCHANGED <<editorStore, splitterStore, splitter, docListeners, ops, lastPointerEvent, drags>>
    /\ UNCHANGED <<gridStore, dragHandler>>

\* a rejected hand-off that is swallowed: the loop goes on to the next slice
HandOffRejectedGoesOn(r) ==
    /\ runs[r].pc = "handoff"
    /\ runs' = [runs EXCEPT ![r].pc = "delay", ![r].rejected = runs[r].i + 1]
    /\ UNCHANGED <<editorStore, splitterStore, editor, splitter, docListeners, ops, drags,
                   lastPointerEvent>>
    /\ UNCHANGED <<gridStore, dragHandler>>

\* await downloadImage(...) rejects: the catch block and the finally block
HandOffRejected(r) ==
    /\ runs[r].pc = "handoff"
    /\ runs' = [runs EXCEPT ![r].pc = "done", ![r].errors = @ + 1, ![r].result = "failed",
                            ![r].rejected = runs[r].i + 1]
    /\ editor' = ExportFinally(editor)
    /\ UNCHANGED <<editorStore, splitterStore, splitter, docListeners, ops, lastPointerEvent, drags>>
    /\ UNCHANGED <<gridStore, dragHandler>>

\* the 300 ms timer fires: i++, the loop test, and the next slice or the end
DelayElapsed(r) ==
    /\ runs[r].pc = "delay"
    /\ IF runs[r].i + 1 < editor.splitCount
       THEN /\ runs' = [runs EXCEPT
                           ![r].pc = "handoff",
                           ![r].i = @ + 1,
                           ![r].widths = Append(@, SliceCanvasWidth(runs[r].sliceWidth)),
                           ![r].attempts = Append(@, runs[r].i + 2)]
            /\ UNCHANGED editor
       ELSE /\ runs' = [runs EXCEPT ![r].pc = "done", ![r].i = @ + 1,
                                    ![r].successes = @ + 1, ![r].result = "exported"]
            /\ editor' = ExportFinally(editor)
    /\ UNCHANGED <<editorStore, splitterStore, splitter, docListeners, ops, lastPointerEvent, drags>>
    /\ UNCHANGED <<gridStore, dragHandler>>

\* ------------------------------------------------------------------------
\* useGridStore (gridStore.ts): cells, row heights and column widths
\* ------------------------------------------------------------------------
\* createInitialCells(rows, cols); generateId is taken to give every cell its own id
createInitialCells(rows, cols) ==
    [k \in 1 .. (rows * cols) |->
        [id |-> k, row |-> ((k - 1) \div cols) + 1, col |-> ((k - 1) % cols) + 1,
         rowSpan |-> 1, colSpan |-> 1]]

\* createEqualSizes(count)
createEqualSizes(count) == [k \in 1 .. count |-> Q(100, count)]

InitGridStore ==
    [rows |-> 3, columns |-> 3, cells |-> createInitialCells(3, 3),
     rowHeights |-> createEqualSizes(3), columnWidths |-> createEqualSizes(3)]

\* Math.min(4, Math.max(2, n))
ClampGridCount(n) == IF n < 2 THEN 2 ELSE IF n > 4 THEN 4 ELSE n

\* setGridSize(newRows, newCols)
setGridSize(newRows, newCols) ==
    LET r == ClampGridCount(newRows)
        c == ClampGridCount(newCols)
    IN  [rows |-> r, columns |-> c, cells |-> createInitialCells(r, c),
         rowHeights |-> createEqualSizes(r), columnWidths |-> createEqualSizes(c)]

\* cells.findIndex / cells.find: the first position whose cell satisfies Test, 0 for none
FirstCell(cells, Test(_)) ==
    LET S == {k \in 1 .. Len(cells) : Test(cells[k])}
    IN  IF S = {} THEN 0 ELSE CHOOSE k \in S : \A j \in S : k <= j

\* cells.filter((c) => c.id !== cellId)
RECURSIVE WithoutCell(_, _)
WithoutCell(cells, cellId) ==
    IF cells = <<>> THEN <<>>
    ELSE IF Head(cells).id = cellId THEN WithoutCell(Tail(cells), cellId)
    ELSE <<Head(cells)>> \o WithoutCell(Tail(cells), cellId)

\* deleteCell that removes the cell and lets no neighbour take its space
deleteCellOnly(cells, cellId) == WithoutCell(cells, cellId)

\* deleteCell(cellId): the cells array it leaves
deleteCell(cells, cellId) ==
    LET IsIt(c) == c.id = cellId
        cellIndex == FirstCell(cells, IsIt)
    IN  IF cellIndex = 0 THEN cells
        ELSE LET del == cells[cellIndex]
                 Below(c) == c.col = del.col /\ c.row = del.row + del.rowSpan /\ c.id # cellId
                 Above(c) == c.col = del.col /\ c.row + c.rowSpan = del.row /\ c.id # cellId
                 below == FirstCell(cells, Below)
                 above == FirstCell(cells, Above)
                 grown ==
                     IF below # 0
                     THEN [cells EXCEPT ![below].row = del.row,
                                        ![below].rowSpan = @ + del.rowSpan]
                     ELSE IF above # 0
                     THEN [cells EXCEPT ![above].rowSpan = @ + del.rowSpan]
                     ELSE cells
             IN  WithoutCell(grown, cellId)

\* currentHeight + delta for a finite current size and any double delta
AddDelta(current, delta) ==
    IF delta \in {NaN, Infinity, NegInfinity} THEN delta ELSE QAdd(current, delta)

\* updateRowHeight / updateColumnWidth without the test of the following size
updateSizeUnchecked(sizes, index, delta) ==
    IF index < 0 \/ index >= Len(sizes) - 1 THEN sizes
    ELSE LET current    == sizes[index + 1]
             next       == sizes[index + 2]
             newCurrent == MathMax(I(10), MathMin(I(90), AddDelta(current, delta)))
         IN  IF newCurrent = NaN THEN sizes
             ELSE [sizes EXCEPT ![index + 1] = newCurrent,
                                ![index + 2] = QSub(next, QSub(newCurrent, current))]

\* the body shared by updateRowHeight(index, delta) and updateColumnWidth(index, delta):
\* the sizes array it leaves (positions count from 0 in the source, from 1 here)
updateSize(sizes, index, delta) ==
    IF index < 0 \/ index >= Len(sizes) - 1 THEN sizes
    ELSE LET minSize    == I(10)
             current    == sizes[index + 1]
             next       == sizes[index + 2]
             newCurrent == MathMax(minSize, MathMin(QSub(Hundred, minSize),
                                                    AddDelta(current, delta)))
             newNext    == IF newCurrent = NaN THEN NaN
                           ELSE QSub(next, QSub(newCurrent, current))
         IN  IF NumLe(minSize, newNext)
             THEN [sizes EXCEPT ![index + 1] = newCurrent, ![index + 2] = newNext]
             ELSE sizes

\* the row and column counts the grid controls offer, and two beyond the range
GridCounts == 1 .. 5

\* deltaPercent of ResizeHandle's handleMouseMove: (delta / containerSize) * 100, which
\* is NaN or an infinity when the container was not found (containerSize 0)
SizeDeltas == {I(20), I(-20), I(45), I(-45), I(100), NaN, Infinity, NegInfinity}

\* the index prop of a resize handle, and positions no handle has
SizeIndexes == -1 .. 3

\* setRows / setColumns / setGridSize from the grid controls
SetGridSize(newRows, newCols) ==
    /\ gridStore' = setGridSize(newRows, newCols)
    /\ UNCHANGED <<editorStore, splitterStore, editor, splitter, docListeners, runs, ops, drags,
                   lastPointerEvent, dragHandler>>

\* a delete button of the grid
DeleteCell(cellId) ==
    /\ gridStore' = [gridStore EXCEPT !.cells = deleteCell(@, cellId)]
    /\ UNCHANGED <<editorStore, splitterStore, editor, splitter, docListeners, runs, ops, drags,
                   lastPointerEvent, dragHandler>>

\* a row handle's mouse move
UpdateRowHeight(index, delta) ==
    /\ gridStore' = [gridStore EXCEPT !.rowHeights = updateSize(@, index, delta)]
    /\ UNCHANGED <<editorStore, splitterStore, editor, splitter, docListeners, runs, ops, drags,
                   lastPointerEvent, dragHandler>>

\* a column handle's mouse move
UpdateColumnWidth(index, delta) ==
    /\ gridStore' = [gridStore EXCEPT !.columnWidths = updateSize(@, index, delta)]
    /\ UNCHANGED <<editorStore, splitterStore, editor, splitter, docListeners, runs, ops, drags,
                   lastPointerEvent, dragHandler>>

\* resetGrid
ResetGrid ==
    /\ gridStore' = InitGridStore
    /\ UNCHANGED <<editorStore, splitterStore, editor, splitter, docListeners, runs, ops, drags,
                   lastPointerEvent, dragHandler>>

\* ------------------------------------------------------------------------
\* useDragHandler / useDragHandlerCumulative (imageProcessing.ts)
\* ------------------------------------------------------------------------
\* the four document listeners of one handler instance
DragListeners == {"mousemove", "mouseup", "touchmove", "touchend"}

\* a handler instance right after useDragHandler (kind "incremental") or
\* useDragHandlerCumulative (kind "cumulative") ran in a component's setup.
\* position is lastPosition resp. dragStartPosition; listeners are the document
\* listeners of this instance. The remaining fields record what the callbacks saw:
\* a drag session is open, a session has ended, onEnd calls of the present or last
\* session, onMove was called, onMove was called outside a session, its last delta.
UseDragHandler(kind) ==
    [kind |-> kind, mounted |-> TRUE, isDragging |-> FALSE,
     position |-> [x |-> 0, y |-> 0], listeners |-> {},
     session |-> FALSE, ended |-> FALSE, onEndCalls |-> 0,
     moved |-> FALSE, onMoveOutside |-> FALSE, lastDelta |-> [x |-> 0, y |-> 0]]

InitDragHandler == UseDragHandler("cumulative")

\* getClientCoords(event): Null for a touch event without a touch
getClientCoords(event) ==
    IF event.touch /\ event.touches = 0 THEN Null ELSE event.point

\* handleMove(event)
handleMove(h, event) ==
    IF ~h.isDragging \/ getClientCoords(event) = Null THEN h
    ELSE LET coords == getClientCoords(event)
             delta  == [x |-> coords.x - h.position.x, y |-> coords.y - h.position.y]
         IN  [h EXCEPT !.position = IF h.kind = "incremental" THEN coords ELSE @,
                       !.moved = TRUE,
                       !.onMoveOutside = @ \/ ~h.session,
                       !.lastDelta = delta]

\* handleEnd that leaves the document listeners in place
handleEndKeepsListeners(h) ==
    IF ~h.isDragging THEN h
    ELSE [h EXCEPT !.isDragging = FALSE, !.onEndCalls = @ + 1]

\* handleEnd()
handleEnd(h) ==
    IF ~h.isDragging THEN h
    ELSE [h EXCEPT !.isDragging = FALSE, !.onEndCalls = @ + 1,
                   !.listeners = @ \ DragListeners]

\* startDrag(event)
startDrag(h, event) ==
    IF event.touch /\ event.touches # 1 THEN h
    ELSE IF getClientCoords(event) = Null THEN h
    ELSE [h EXCEPT !.isDragging = TRUE,
                   !.position = getClientCoords(event),
                   !.listeners = @ \cup DragListeners,
                   !.session = TRUE,
                   !.onEndCalls = IF h.session THEN @ ELSE 0]

DragPoints == {[x |-> 0, y |-> 0], [x |-> 4, y |-> 2], [x |-> 9, y |-> 5]}

\* mouse events, and touch events with no, one and two touches
PointerEvents ==
    [touch : {FALSE}, touches : {0}, point : DragPoints]
        \cup [touch : {TRUE}, touches : 0 .. 2, point : DragPoints]

\* mousedown / touchstart on the component's element
StartDrag(event) ==
    /\ dragHandler.mounted
    /\ dragHandler' = startDrag(dragHandler, event)
    /\ UNCHANGED <<editorStore, splitterStore, editor, splitter, docListeners, runs, ops, drags,
                   lastPointerEvent, gridStore>>

\* mousemove / touchmove on document: delivered to the listener if it is registered
PointerMove(event) ==
    /\ dragHandler' =
           IF (IF event.touch THEN "touchmove" ELSE "mousemove") \in dragHandler.listeners
           THEN handleMove(dragHandler, event)
           ELSE dragHandler
    /\ UNCHANGED <<editorStore, splitterStore, editor, splitter, docListeners, runs, ops, drags,
                   lastPointerEvent, gridStore>>

\* mouseup / touchend on document: ends the open session
PointerUp(type) ==
    /\ LET h == IF type \in dragHandler.listeners THEN handleEnd(dragHandler)
                ELSE dragHandler
       IN  dragHandler' = [h EXCEPT !.session = FALSE, !.ended = @ \/ dragHandler.session]
    /\ UNCHANGED <<editorStore, splitterStore, editor, splitter, docListeners, runs, ops, drags,
                   lastPointerEvent, gridStore>>

\* onUnmounted: ends the open session
Unmount ==
    /\ dragHandler.mounted
    /\ dragHandler' = [handleEnd(dragHandler) EXCEPT !.mounted = FALSE, !.session = FALSE,
                                                     !.ended = @ \/ dragHandler.session]
    /\ UNCHANGED <<editorStore, splitterStore, editor, splitter, docListeners, runs, ops, drags,
                   lastPointerEvent, gridStore>>

Init ==
    /\ editorStore = InitEditorStore
    /\ splitterStore = InitSplitterStore
    /\ editor = InitEditor([width |-> 480, height |-> 480])
    /\ splitter = InitSplitter
    /\ docListeners = {}
    /\ runs = [r \in 1 .. MaxRuns |-> InitRun]
    /\ ops = 0
    /\ drags = 0
    /\ lastPointerEvent = "init"
    /\ gridStore = InitGridStore
    /\ dragHandler = InitDragHandler

\* the editor's crop controller with everything that moves the crop or its bounds
NextCrop ==
    \/ \E dims \in ImageSizes : BeforeUpload(dims)
    \/ ImageLoadFrame
    \/ \E rect \in Containers : ResizeObserved(rect)
    \/ RotateClockwise
    \/ \E ratio \in AspectChoices : HandleAspectRatioChange(ratio)
    \/ \E type \in CropDragTypes, client \in PointerDowns : StartCropDrag(type, client)
    \/ \E client \in PointerMoves : HandleCropDrag(client)
    \/ StopCropDrag
    \/ CropTouchCancel

SpecCrop == Init /\ [][NextCrop]_vars

\* the aspect-lock menu used on crops that were moved and resized with the handles
AspectDragTypes == {"n", "se"}

NextAspect ==
    \/ \E dims \in ImageSizes : BeforeUpload(dims)
    \/ ImageLoadFrame
    \/ \E ratio \in AspectChoices : HandleAspectRatioChange(ratio)
    \/ \E type \in AspectDragTypes, client \in PointerDowns : StartCropDrag(type, client)
    \/ \E client \in PointerMoves : HandleCropDrag(client)
    \/ StopCropDrag

SpecAspect == Init /\ [][NextAspect]_vars

\* the editor's export with the settings it reads
NextExport ==
    \/ \E dims \in ImageSizes : BeforeUpload(dims)
    \/ ImageLoadFrame
    \/ \E checked \in BOOLEAN : HandleSplitEnabledChange(checked)
    \/ \E value \in MIN_SPLIT_COUNT .. MAX_SPLIT_COUNT : HandleSplitCountChange(value)
    \/ \E r \in 1 .. MaxRuns :
          \/ HandleExport(r)
          \/ ImageLoadFailed(r)
          \/ ImageLoaded(r)
          \/ HandOffResolved(r)
          \/ HandOffRejected(r)
          \/ DelayElapsed(r)

SpecExport == Init /\ [][NextExport]_vars

\* the splitter's crop controller
NextSplitter ==
    \/ SplitterBeforeUpload
    \/ SplitterReset
    \/ \E type \in CropDragTypes, client \in PointerDowns : SplitterStartCropDrag(type, client)
    \/ \E client \in PointerMoves : SplitterHandleCropDrag(client)
    \/ SplitterStopCropDrag
    \/ SplitterTouchCancel

SpecSplitter == Init /\ [][NextSplitter]_vars

\* rotation and zoom of the two stores
NextStore ==
    \/ RotateClockwise
    \/ RotateCounterClockwise
    \/ \E value \in ZoomInputs : SetZoom(value)
    \/ SplitterRotateClockwise
    \/ SplitterRotateCounterClockwise
    \/ \E level \in ZoomInputs : SplitterSetZoom(level)

SpecStore == Init /\ [][NextStore]_vars

\* the colour curves of the editor store
NextCurves ==
    \/ \E channel \in CurveChannels, point \in CurveInputs : AddCurvePoint(channel, point)
    \/ \E channel \in CurveChannels, index \in 0 .. MaxOps + 1 : RemoveCurvePoint(channel, index)
    \/ \E channel \in CurveChannels, index \in 0 .. MaxOps + 1, point \in CurveInputs :
          UpdateCurvePoint(channel, index, point)
    \/ ResetCurvesClicked

SpecCurves == Init /\ [][NextCurves]_vars

\* the curves as the export and the preview render them: edits of the master curve
\* and of one colour channel (the three colour channels are rendered alike)
RenderChannels == {"rgb", "red"}

NextCurveRender ==
    /\ ops < MaxCurveEdits
    /\ \/ \E channel \in RenderChannels, point \in CurveInputs : AddCurvePoint(channel, point)
       \/ \E channel \in RenderChannels, index \in 0 .. MaxOps + 1, point \in CurveInputs :
             UpdateCurvePoint(channel, index, point)

SpecCurveRender == Init /\ [][NextCurveRender]_vars

\* the adjustment and filter settings of the editor store
NextFilters ==
    \/ \E key \in AdjustmentKeys, value \in AdjustmentInputs : HandleAdjustmentChange(key, value)
    \/ \E key \in FilterNames, value \in FilterInputs : HandleFilterChange(key, value)
    \/ \E filterName \in FilterNames : ToggleFilter(filterName)
    \/ ResetAdjustmentsClicked
    \/ ResetFiltersClicked

SpecFilters == Init /\ [][NextFilters]_vars

\* image replacement and reset in the two stores, from any settings
InitReset ==
    /\ editorStore \in EditedEditorStores
    /\ splitterStore \in EditedSplitterStores
    /\ editor = InitEditor([width |-> 480, height |-> 480])
    /\ splitter = InitSplitter
    /\ docListeners = {}
    /\ runs = [r \in 1 .. MaxRuns |-> InitRun]
    /\ ops = 0
    /\ drags = 0
    /\ lastPointerEvent = "init"
    /\ gridStore = InitGridStore
    /\ dragHandler = InitDragHandler

NextReset ==
    \/ \E dims \in ImageSizes : SetImage(dims)
    \/ ClearImage
    \/ StoreResetEdits
    \/ SplitterBeforeUpload
    \/ SplitterReset

SpecReset == InitReset /\ [][NextReset]_vars

\* the settings the stages of an export read: one adjustment and one filter of the
\* main chain, and the setting of every stage that has its own step
StageAdjustments == {"exposure", "sharpness"}
StageFilters == {"sepia", "blur", "posterize", "grain", "vignette"}
StageCurveChannels == {"blue"}

\* the editor's export with the settings its stages read
NextExportStages ==
    \/ \E dims \in ImageSizes : BeforeUpload(dims)
    \/ ImageLoadFrame
    \/ \E key \in StageAdjustments, value \in AdjustmentInputs : HandleAdjustmentChange(key, value)
    \/ \E filterName \in StageFilters : ToggleFilter(filterName)
    \/ \E channel \in StageCurveChannels, point \in CurveInputs : AddCurvePoint(channel, point)
    \/ \E r \in 1 .. MaxRuns :
          \/ HandleExport(r)
          \/ ImageLoaded(r)
          \/ HandOffResolved(r)

SpecExportStages == Init /\ [][NextExportStages]_vars

\* The crop handles in free aspect mode. One of the two components is on the page: the
\* editor after an upload, its layout frame and one finished free drag from the full
\* image, or the splitter after an upload and one finished drag from the default crop.
ResizeHandles == CropDragTypes \ {"move"}

EditorRect == [width |-> 480, height |-> 480]

\* the crops one free drag leaves starting from the crop b that fills the image bounds
EditorFreeDragged(b) ==
    {b} \cup {CropDragResult(type, PointerDelta(client, down, EditorRect), b, b, Null) :
                 type \in ResizeHandles, client \in PointerMoves, down \in PointerDowns}

SplitterFreeDragged ==
    {DEFAULT_CROP_AREA} \cup
    {SplitterStoredCrop(SplitterDragResult(type, PointerDelta(client, down, SplitterRect),
                                           DEFAULT_CROP_AREA)) :
        type \in ResizeHandles, client \in PointerMoves, down \in PointerDowns}

InitFreeResize ==
    /\ \/ /\ \E dims \in ImageSizes :
               LET b == ContainBounds(EditorRect, dims, 0)
               IN  /\ editor = [InitEditor(EditorRect) EXCEPT !.containerRef = TRUE,
                                                              !.imageBounds = b]
                   /\ \E c \in EditorFreeDragged(b) :
                          editorStore = [setImage(InitEditorStore, "blob", dims)
                                            EXCEPT !.cropArea = c]
          /\ splitterStore = InitSplitterStore
       \/ /\ editorStore = InitEditorStore
          /\ editor = InitEditor(EditorRect)
          /\ \E c \in SplitterFreeDragged :
                 splitterStore = [InitSplitterStore EXCEPT !.imageUrl = "blob",
                                                           !.cropArea = c]
    /\ splitter = InitSplitter
    /\ docListeners = {}
    /\ runs = [r \in 1 .. MaxRuns |-> InitRun]
    /\ ops = 0
    /\ drags = 0
    /\ lastPointerEvent = "pointerup"
    /\ gridStore = InitGridStore
    /\ dragHandler = InitDragHandler

NextFreeResize ==
    \/ \E type \in ResizeHandles, client \in PointerDowns : StartCropDrag(type, client)
    \/ \E client \in PointerMoves : HandleCropDrag(client)
    \/ StopCropDrag
    \/ \E type \in ResizeHandles, client \in PointerDowns : SplitterStartCropDrag(type, client)
    \/ \E client \in PointerMoves : SplitterHandleCropDrag(client)
    \/ SplitterStopCropDrag

SpecFreeResize == InitFreeResize /\ [][NextFreeResize]_vars

\* The corner handles with a locked aspect ratio: the editor after an upload, its layout
\* frame, one finished free drag from the full image and a pick in the aspect menu.
CornerHandles == {"ne", "nw", "se", "sw"}

LockedChoices == AspectChoices \ {"free"}

\* pointer positions of the corner drags: those of the free drags and one that moves
\* 48 px right and 36 px down from the press (10% and 7.5% of the container)
CornerPointerMoves == PointerMoves \cup {[x |-> 288, y |-> 156]}

InitLockedCorner ==
    /\ \E dims \in ImageSizes, choice \in LockedChoices :
           LET b == ContainBounds(EditorRect, dims, 0)
           IN  /\ editor = [InitEditor(EditorRect) EXCEPT !.containerRef = TRUE,
                                                          !.imageBounds = b]
               /\ \E c \in EditorFreeDragged(b) :
                      editorStore =
                          [setImage(InitEditorStore, "blob", dims)
                              EXCEPT !.cropAspectRatio = choice,
                                     !.cropArea = AspectRatioCrop(c, b, ASPECT_RATIO_VALUES[choice])]
    /\ splitterStore = InitSplitterStore
    /\ splitter = InitSplitter
    /\ docListeners = {}
    /\ runs = [r \in 1 .. MaxRuns |-> InitRun]
    /\ ops = 0
    /\ drags = 0
    /\ lastPointerEvent = "pointerup"
    /\ gridStore = InitGridStore
    /\ dragHandler = InitDragHandler

NextLockedCorner ==
    \/ \E type \in CornerHandles, client \in PointerDowns : StartCropDrag(type, client)
    \/ \E client \in CornerPointerMoves : HandleCropDrag(client)
    \/ StopCropDrag

SpecLockedCorner == InitLockedCorner /\ [][NextLockedCorner]_vars

\* The export of a crop that was set with the handles. The handles pressed here: the
\* crop body, one edge and one corner.
SampledHandles == {"move", "n", "se"}

NextExportCrop ==
    \/ \E dims \in ImageSizes : BeforeUpload(dims)
    \/ ImageLoadFrame
    \/ \E type \in SampledHandles, client \in PointerDowns : StartCropDrag(type, client)
    \/ \E client \in PointerMoves : HandleCropDrag(client)
    \/ StopCropDrag
    \/ \E r \in 1 .. MaxRuns :
          \/ HandleExport(r)
          \/ ImageLoaded(r)
          \/ HandOffResolved(r)

SpecExportCrop == Init /\ [][NextExportCrop]_vars

\* One crop drag with several pointer-moves, in free or locked aspect mode, in the editor
\* or in the splitter; nothing but the pointer acts during the drag.
InitDrag == InitFreeResize \/ InitLockedCorner

NextDrag ==
    \/ \E type \in SampledHandles, client \in PointerDowns : StartCropDrag(type, client)
    \/ \E client \in CornerPointerMoves : HandleCropDrag(client)
    \/ StopCropDrag
    \/ \E type \in SampledHandles, client \in PointerDowns : SplitterStartCropDrag(type, client)
    \/ \E client \in CornerPointerMoves : SplitterHandleCropDrag(client)
    \/ SplitterStopCropDrag

SpecDrag == InitDrag /\ [][NextDrag]_vars

\* the grid store under resize-handle moves: rows take every sampled delta, columns the
\* large ones and NaN
ColumnDeltas == {I(45), NaN}

NextGridSizes ==
    \/ \E newRows \in GridCounts, newCols \in GridCounts : SetGridSize(newRows, newCols)
    \/ \E index \in SizeIndexes, delta \in SizeDeltas : UpdateRowHeight(index, delta)
    \/ \E index \in SizeIndexes, delta \in ColumnDeltas : UpdateColumnWidth(index, delta)

SpecGridSizes == Init /\ [][NextGridSizes]_vars

\* the ids of the cells the grid shows
CellIds(cells) == {cells[k].id : k \in 1 .. Len(cells)}

\* the grid store under the delete buttons, the size controls and the reset
NextGridCells ==
    \/ \E newRows \in 2 .. 3, newCols \in 2 .. 3 : SetGridSize(newRows, newCols)
    \/ \E cellId \in CellIds(gridStore.cells) : DeleteCell(cellId)
    \/ ResetGrid

SpecGridCells == Init /\ [][NextGridCells]_vars

\* the editor with room for one export run more than the budget, so that a second
\* invocation can overlap the first
InitExportAgain ==
    /\ editorStore = InitEditorStore
    /\ splitterStore = InitSplitterStore
    /\ editor = InitEditor(EditorRect)
    /\ splitter = InitSplitter
    /\ docListeners = {}
    /\ runs = [r \in 1 .. (MaxRuns + 1) |-> InitRun]
    /\ ops = 0
    /\ drags = 0
    /\ lastPointerEvent = "init"
    /\ gridStore = InitGridStore
    /\ dragHandler = InitDragHandler

NextExportAgain ==
    \/ \E dims \in ImageSizes : BeforeUpload(dims)
    \/ ImageLoadFrame
    \/ \E r \in DOMAIN runs :
          \/ HandleExport(r)
          \/ HandleExportAgain(r)
          \/ ImageLoadFailed(r)
          \/ ImageLoaded(r)
          \/ HandOffResolved(r)
          \/ HandOffRejected(r)

SpecExportAgain == InitExportAgain /\ [][NextExportAgain]_vars

\* one handler instance of either kind under pointer events and the unmount
InitDragSession ==
    /\ editorStore = InitEditorStore
    /\ splitterStore = InitSplitterStore
    /\ editor = InitEditor(EditorRect)
    /\ splitter = InitSplitter
    /\ docListeners = {}
    /\ runs = [r \in 1 .. MaxRuns |-> InitRun]
    /\ ops = 0
    /\ drags = 0
    /\ lastPointerEvent = "init"
    /\ gridStore = InitGridStore
    /\ \E kind \in {"incremental", "cumulative"} : dragHandler = UseDragHandler(kind)

NextDragSession ==
    \/ \E event \in PointerEvents : StartDrag(event)
    \/ \E event \in PointerEvents : PointerMove(event)
    \/ \E type \in {"mouseup", "touchend"} : PointerUp(type)
    \/ Unmount

SpecDragSession == InitDragSession /\ [][NextDragSession]_vars

\* ------------------------------------------------------------------------
\* Properties
\* ------------------------------------------------------------------------
InsideFrame(c) ==
    /\ QGe(c.width, I(10))
    /\ QGe(c.height, I(10))
    /\ QLe(QAdd(c.x, c.width), Hundred)
    /\ QLe(QAdd(c.y, c.height), Hundred)

\* C2: in the splitter, whatever crop drags have run since the default crop, the
\* stored crop has x >= 0, y >= 0, width >= 10, height >= 10, x + width <= 100
\* and y + height <= 100.
C2_SplitterCropInFrame ==
    /\ QGe(splitterStore.cropArea.x, Zero)
    /\ QGe(splitterStore.cropArea.y, Zero)
    /\ InsideFrame(splitterStore.cropArea)

\* a drag has been released on a crop that was cut down and then pushed against
\* the bottom edge of the frame by a later drag
C2_Witness ==
    /\ lastPointerEvent = "pointerup"
    /\ ops >= 2
    /\ QGt(splitterStore.cropArea.y, Zero)
    /\ QLt(splitterStore.cropArea.height, Hundred)
    /\ QAdd(splitterStore.cropArea.y, splitterStore.cropArea.height) = Hundred

\* a rectangle inside the CropBounds b on both axes
InsideBounds(c, b) ==
    /\ QGe(c.x, b.minX)
    /\ QGe(c.y, b.minY)
    /\ QLe(QAdd(c.x, c.width), b.maxX)
    /\ QLe(QAdd(c.y, c.height), b.maxY)

\* the step is a pointer-move that the editor's handleCropDrag turns into a crop update
EditorDragUpdate(client) ==
    /\ HandleCropDrag(client)
    /\ editor.isDraggingCrop
    /\ editor.containerRef
    /\ editor.dragType # NullStr

\* C1: in the editor the stored crop has width >= 10, height >= 10,
\* x + width <= 100 and y + height <= 100 after every mutation of the crop (drag
\* update, aspect-ratio change, constrain step after resize or rotation,
\* initialisation to the image bounds).
C1_EditorCropInFrame == InsideFrame(editorStore.cropArea)

\* C3: with an aspect lock of ratio r, every crop-drag update of the editor writes a
\* crop with width / height = r, whatever the handle (move included), the pointer
\* delta and the crop captured at drag start.
C3_LockedDragKeepsRatio ==
    [][\A client \in PointerMoves :
          (EditorDragUpdate(client) /\ ASPECT_RATIO_VALUES[editorStore.cropAspectRatio] # Null)
          => editorStore'.cropArea.width =
                 QMul(editorStore'.cropArea.height, ASPECT_RATIO_VALUES[editorStore.cropAspectRatio])
      ]_vars

\* C4 (editor): a drag update with handle 'move' keeps the width and height captured
\* at drag start and writes a rectangle fully inside the image bounds on both
\* axes, flush against each bound the translation would cross.
C4_EditorMoveInsideBounds ==
    [][\A client \in PointerMoves :
          (EditorDragUpdate(client) /\ editor.dragType = "move")
          => LET c == editorStore'.cropArea
                 b == CropBoundsOf(editor.imageBounds)
                 d == PointerDelta(client, editor.dragStart, editor.rect)
                 tx == QAdd(editor.cropStart.x, d.x)
                 ty == QAdd(editor.cropStart.y, d.y)
             IN  /\ c.width = editor.cropStart.width
                 /\ c.height = editor.cropStart.height
                 /\ InsideBounds(c, b)
                 /\ QLt(tx, b.minX) => c.x = b.minX
                 /\ QLt(ty, b.minY) => c.y = b.minY
                 /\ QGt(QAdd(tx, c.width), b.maxX) => QAdd(c.x, c.width) = b.maxX
                 /\ QGt(QAdd(ty, c.height), b.maxY) => QAdd(c.y, c.height) = b.maxY
      ]_vars

\* C5: when the crop captured at drag start lies inside the image bounds, the crop
\* written by the editor's drag update lies inside the image bounds, for every
\* handle, aspect mode and pointer delta.
C5_DragResultInsideBounds ==
    [][\A client \in PointerMoves :
          (EditorDragUpdate(client)
             /\ InsideBounds(editor.cropStart, CropBoundsOf(editor.imageBounds)))
          => InsideBounds(editorStore'.cropArea, CropBoundsOf(editor.imageBounds))
      ]_vars

\* C6: the editor's drag controller is idle or dragging: pointer-down makes it
\* dragging with the pointer start and the crop captured, pointer-up or
\* pointer-cancel makes it idle and removes the document listeners, and the
\* listeners are registered only while it is dragging.
C6_DragControllerReleases ==
    /\ lastPointerEvent = "pointerdown"
          => /\ editor.isDraggingCrop
             /\ editor.dragType \in CropDragTypes
             /\ editor.dragStart \in PointerDowns
    /\ lastPointerEvent \in {"pointerup", "pointercancel"}
          => /\ ~editor.isDraggingCrop
             /\ docListeners \cap EditorCropListeners = {}
    /\ docListeners \cap EditorCropListeners # {} => editor.isDraggingCrop

RECURSIVE SumSeq(_)
SumSeq(q) == IF q = <<>> THEN 0 ELSE Head(q) + SumSeq(Tail(q))

\* <<1, 2, ..., k>>
UpTo(k) == [j \in 1 .. k |-> j]

\* C7: a multi-slice export of a final buffer of integer width W with split count
\* n in 2..5 produces exactly n slices, and their integer widths sum to W.
C7_SliceWidthsSumToWidth ==
    \A r \in 1 .. MaxRuns :
        (runs[r].result = "exported" /\ runs[r].split)
        => /\ runs[r].n \in MIN_SPLIT_COUNT .. MAX_SPLIT_COUNT
           /\ Len(runs[r].widths) = runs[r].n
           /\ SumSeq(runs[r].widths) = runs[r].canvas.width

\* C8: when the sink rejects the hand-off of slice k of a multi-slice export,
\* the export is over at once: slices 1..k were handed to the sink once each and
\* none after k, slices 1..k-1 are delivered, one error and no success
\* notification was shown, and the exporting flag is false.
C8_RejectedSliceAbortsExport ==
    \A r \in 1 .. MaxRuns :
        (runs[r].split /\ runs[r].rejected # 0)
        => /\ runs[r].pc = "done"
           /\ runs[r].attempts = UpTo(runs[r].rejected)
           /\ runs[r].delivered = UpTo(runs[r].rejected - 1)
           /\ runs[r].errors = 1
           /\ runs[r].successes = 0
           /\ (\A q \in 1 .. MaxRuns : runs[q].pc \in {"idle", "done"}) => ~editor.isExporting

\* the sink rejected the third slice after it took the first two
C8_Witness ==
    \E r \in 1 .. MaxRuns :
        /\ runs[r].split
        /\ runs[r].rejected = 3
        /\ runs[r].delivered = <<1, 2>>
        /\ runs[r].result = "failed"

\* C9: an export invoked while no image is loaded produces no buffer, calls the
\* sink for nothing and surfaces the failure to the caller (a rejected call or an
\* error notification).
C9_NoImageExportSurfacesError ==
    \A r \in 1 .. MaxRuns :
        (runs[r].pc # "idle" /\ ~runs[r].hadImage)
        => /\ runs[r].widths = <<>>
           /\ runs[r].attempts = <<>>
           /\ runs[r].result = "failed" \/ runs[r].errors > 0

\* C11: in every reachable state of the editor store every channel curve has at
\* least 2 points, its first point has x = 0 and its last point has x = 255
C11_CurveEndpointsPinned ==
    \A c \in CurveChannels :
        LET curve == editorStore.curves[c]
        IN  /\ Len(curve) >= 2
            /\ curve[1].x = 0
            /\ curve[Len(curve)].x = 255

\* a curve that took an added point and had both of its end points dragged
C11_Witness ==
    \E c \in CurveChannels :
        LET curve == editorStore.curves[c]
        IN  /\ Len(curve) = 3
            /\ curve[1] = CurvePoint(0, 64)
            /\ curve[3] = CurvePoint(255, 200)
            /\ ops = MaxOps

\* the points of a curve are in non-decreasing x order
SortedByX(curve) ==
    \A i \in 1 .. (Len(curve) - 1) : curve[i].x <= curve[i + 1].x

\* C12: in every reachable state, after any sequence of addCurvePoint,
\* removeCurvePoint and updateCurvePoint, the points of every channel curve are in
\* non-decreasing x order
C12_CurvesSortedByX ==
    \A c \in CurveChannels : SortedByX(editorStore.curves[c])

\* C13: for every control-point list with at least 2 points sorted by x whose
\* first point has x = 0 and whose last point has x = 255 (repeated x values
\* included), generateLUT(points)[0] is points[0].y/255 and generateLUT(points)[255]
\* is points[last].y/255
C13_LutEndsAtEndPoints ==
    \A c \in CurveChannels :
        LET points == editorStore.curves[c]
        IN  (/\ Len(points) >= 2
             /\ SortedByX(points)
             /\ points[1].x = 0
             /\ points[Len(points)].x = 255)
            => /\ generateLUT(points)[0] = Q(points[1].y, 255)
               /\ generateLUT(points)[255] = Q(points[Len(points)].y, 255)

\* C14: curve composition is master-then-channel in both rendering paths: for every
\* channel and every v in 0..255 the export writes
\* round(255 * channelLUT[round(255 * masterLUT[v])]), entry v of the preview table is
\* channelLUT[round(255 * masterLUT[v])], so both paths give the same 8-bit value;
\* with rgb = [(0,0),(128,64),(255,255)] and identity channel curves 128 maps to 64
C14_CurveCompositionAgrees ==
    LET curves == editorStore.curves
        master == generateLUT(curves["rgb"])
    IN  /\ \A channel \in ColourChannels, v \in 0 .. 255 :
              LET channelLUT == generateLUT(curves[channel])
                  composed   == channelLUT[MathRound(QMul(I(255), master[v]))]
              IN  /\ ExportCurveValue(curves, channel, v) = MathRound(QMul(I(255), composed))
                  /\ PreviewCurveEntry(curves, channel, v) = composed
                  /\ MathRound(QMul(I(255), PreviewCurveEntry(curves, channel, v)))
                         = ExportCurveValue(curves, channel, v)
        /\ (/\ curves["rgb"] = <<CurvePoint(0, 0), CurvePoint(128, 64), CurvePoint(255, 255)>>
            /\ \A channel \in ColourChannels : curves[channel] = DEFAULT_CURVES[channel])
           => \A channel \in ColourChannels : ExportCurveValue(curves, channel, 128) = 64

\* the master curve darkens the midtones, the red curve is modified too, and the
\* two orders of composition differ for white (channel-first would give 32)
C14_Witness ==
    /\ editorStore.curves["rgb"] = <<CurvePoint(0, 0), CurvePoint(128, 64), CurvePoint(255, 255)>>
    /\ editorStore.curves["red"] = <<CurvePoint(0, 0), CurvePoint(255, 64)>>
    /\ ExportCurveValue(editorStore.curves, "red", 255) = 64
    /\ ExportCurveValue(editorStore.curves, "green", 128) = 64

\* the fixed order of the chain: each input with the primitives it stands for
FilterChainOrder ==
    << <<"exposure", <<"brightness">> >>,
       <<"saturation", <<"saturate">> >>,
       <<"brilliance", <<"contrast">> >>,
       <<"shadows", <<"brightness">> >>,
       <<"invert", <<"invert">> >>,
       <<"sepia", <<"sepia">> >>,
       <<"blackAndWhite", <<"grayscale">> >>,
       <<"vintage", <<"sepia", "saturate", "contrast">> >>,
       <<"warm", <<"sepia", "saturate", "brightness">> >>,
       <<"cool", <<"saturate", "hue-rotate", "brightness">> >>,
       <<"fade", <<"contrast", "brightness">> >>,
       <<"blur", <<"blur">> >> >>

\* the primitives of the non-neutral inputs among the first k entries of the order
RECURSIVE ExpectedChain(_, _, _)
ExpectedChain(adjustments, filters, k) ==
    IF k = 0 THEN <<>>
    ELSE LET input == FilterChainOrder[k][1]
             value == IF input \in AdjustmentKeys THEN adjustments[input] ELSE filters[input]
         IN  ExpectedChain(adjustments, filters, k - 1)
             \o (IF value # 0 THEN FilterChainOrder[k][2] ELSE <<>>)

\* C15: buildCssFilterString emits exactly the primitives of the non-neutral inputs
\* in the fixed order exposure, saturation, brilliance, shadows, invert, sepia,
\* blackAndWhite, vintage, warm, cool, fade, blur; all-neutral input gives the empty
\* chain; vignette, grain, posterize and sharpness never contribute
C15_FilterChainOrder ==
    LET adjustments == editorStore.adjustments
        filters     == editorStore.filters
        chain       == buildCssFilterString(adjustments, filters, I(1))
    IN  /\ [i \in 1 .. Len(chain) |-> chain[i].fn]
               = ExpectedChain(adjustments, filters, Len(FilterChainOrder))
        /\ (adjustments = DEFAULT_ADJUSTMENTS /\ filters = DEFAULT_FILTERS) => chain = <<>>
        /\ chain = buildCssFilterString(
                       [adjustments EXCEPT !["sharpness"] = 0],
                       [filters EXCEPT !["vignette"] = 0, !["grain"] = 0, !["posterize"] = 0],
                       I(1))

\* invert, sepia and an adjustment are all set: the chain is brightness invert sepia
C15_Witness ==
    /\ editorStore.adjustments["exposure"] = 50
    /\ editorStore.filters["invert"] = 50
    /\ editorStore.filters["sepia"] = 100
    /\ Len(buildCssFilterString(editorStore.adjustments, editorStore.filters, I(1))) = 3

\* every edit setting of the editor store is at its default
EditorEditsAtDefault(store) ==
    /\ store.rotation = 0
    /\ store.zoom = I(1)
    /\ store.position = [x |-> Zero, y |-> Zero]
    /\ store.cropArea = Rect(Zero, Zero, Hundred, Hundred)
    /\ store.cropAspectRatio = "free"
    /\ \A k \in AdjustmentKeys : store.adjustments[k] = 0
    /\ \A k \in FilterNames : store.filters[k] = 0
    /\ \A c \in CurveChannels :
          /\ store.curves[c] = <<CurvePoint(0, 0), CurvePoint(255, 255)>>
          /\ ~isCurveModified(store.curves[c], DEFAULT_CURVES[c])

\* rotation, zoom, position and crop of the splitter store are at their defaults
SplitterEditsAtDefault(store) ==
    /\ store.rotation = 0
    /\ store.zoom = I(1)
    /\ store.position = [x |-> Zero, y |-> Zero]
    /\ store.cropArea = Rect(Zero, Zero, Hundred, Hundred)

\* C16: whatever the settings were, after setImage, clearImage or resetEdits the
\* editor store has rotation 0, zoom 1, position (0,0), crop {0,0,100,100}, aspect
\* lock free, all adjustments and filters 0 and four unmodified two-point curves;
\* after setImage or reset the splitter store has the default rotation, zoom,
\* position and crop
C16_ResetRestoresDefaults ==
    [][/\ \A dims \in ImageSizes : SetImage(dims) => EditorEditsAtDefault(editorStore')
       /\ ClearImage => EditorEditsAtDefault(editorStore')
       /\ StoreResetEdits => EditorEditsAtDefault(editorStore')
       /\ SplitterBeforeUpload => SplitterEditsAtDefault(splitterStore')
       /\ SplitterReset => SplitterEditsAtDefault(splitterStore')]_vars

\* the editor store after one setImage in a session whose splitter store is still
\* edited all over
C16_Witness ==
    /\ ops = 1
    /\ editorStore.imageUrl = "blob"
    /\ editorStore.imageDimensions = [width |-> 400, height |-> 400]
    /\ EditorEditsAtDefault(editorStore)
    /\ splitterStore.rotation = 270
    /\ splitterStore.zoom = I(3)
    /\ splitterStore.position # DEFAULT_POSITION
    /\ splitterStore.cropArea = Rect(I(20), I(30), I(50), I(10))

\* the rectangle b (in percent of the container rect) lies inside the container's
\* content box, the rect less its padding
InsideContentBox(b, rect) ==
    /\ QGe(b.x, Q(100 * CONTAINER_PADDING, rect.width))
    /\ QGe(b.y, Q(100 * CONTAINER_PADDING, rect.height))
    /\ QLe(QAdd(b.x, b.width), Q(100 * (rect.width - CONTAINER_PADDING), rect.width))
    /\ QLe(QAdd(b.y, b.height), Q(100 * (rect.height - CONTAINER_PADDING), rect.height))

\* the rectangle b is centred in the container
CentredInBox(b) ==
    /\ QAdd(b.x, QDiv(b.width, I(2))) = I(50)
    /\ QAdd(b.y, QDiv(b.height, I(2))) = I(50)

\* the rectangle b, in pixels, has the aspect ratio of the image as rotated
RotatedAspect(b, rect, dims, rotation) ==
    LET turned == rotation = 90 \/ rotation = 270
        w == IF turned THEN dims.height ELSE dims.width
        h == IF turned THEN dims.width ELSE dims.height
    IN  QMul(QMul(b.width, I(rect.width)), I(h)) = QMul(QMul(b.height, I(rect.height)), I(w))

\* C17: for the container, the image and the rotation of every reachable state with
\* an image in a mounted container, the image bounds computed for the preview lie
\* inside the container's content box, are centred in it and have the aspect ratio of
\* the image as rotated
C17_ImageBoundsInsideContainer ==
    (editor.containerRef /\ editorStore.imageDimensions # NullDims)
    => LET b == UpdatedImageBounds(editor.containerRef, editor.rect,
                                   editorStore.imageDimensions, editorStore.rotation)
       IN  /\ InsideContentBox(b, editor.rect)
           /\ CentredInBox(b)
           /\ RotatedAspect(b, editor.rect, editorStore.imageDimensions, editorStore.rotation)

\* the fixed order of the stages of an export
StageOrder ==
    <<"draw", "filter", "blur", "curves", "posterize", "grain", "vignette", "sharpness",
      "encode">>

\* the position of a stage in the fixed order, 0 for a stage that is not in it
StageRank(name) ==
    IF \E k \in 1 .. Len(StageOrder) : StageOrder[k] = name
    THEN CHOOSE k \in 1 .. Len(StageOrder) : StageOrder[k] = name
    ELSE 0

\* how many stages of a run apply a blur primitive
BlurCount(stages) ==
    Cardinality({k \in 1 .. Len(stages) :
                    \E j \in 1 .. Len(stages[k].chain) : stages[k].chain[j].fn = "blur"})

\* the stages run in the fixed order, from the draw to the encoding, a stage is there
\* exactly when its setting is not neutral, and blur is applied at most once and not
\* by the main chain
StagesAsOrdered(stages, store) ==
    LET Has(name) == \E k \in 1 .. Len(stages) : stages[k].stage = name
    IN  /\ Len(stages) >= 2
        /\ stages[1].stage = "draw"
        /\ stages[Len(stages)].stage = "encode"
        /\ \A k \in 1 .. Len(stages) : StageRank(stages[k].stage) > 0
        /\ \A k \in 1 .. (Len(stages) - 1) :
              StageRank(stages[k].stage) < StageRank(stages[k + 1].stage)
        /\ Has("filter") <=> buildCssFilterString(store.adjustments,
                                 [store.filters EXCEPT !["blur"] = 0], I(1)) # <<>>
        /\ Has("blur") <=> store.filters["blur"] # 0
        /\ Has("curves") <=> \E c \in CurveChannels : store.curves[c] # DEFAULT_CURVES[c]
        /\ Has("posterize") <=> store.filters["posterize"] # 0
        /\ Has("grain") <=> store.filters["grain"] # 0
        /\ Has("vignette") <=> store.filters["vignette"] # 0
        /\ Has("sharpness") <=> store.adjustments["sharpness"] # 0
        /\ BlurCount(stages) <= 1
        /\ \A k \in 1 .. Len(stages) :
              stages[k].stage = "filter"
              => \A j \in 1 .. Len(stages[k].chain) : stages[k].chain[j].fn # "blur"

\* C18: an editor export runs its stages in the fixed order draw, filter chain
\* without blur, blur, curves (only when a curve is modified), posterize, grain,
\* vignette, sharpness, encoding; blur is applied at most once and never inside the
\* main chain; blur, curves, posterize, grain, vignette and sharpness leave the
\* buffer untouched when their setting is neutral
C18_ExportStagesInOrder ==
    [][\A r \in 1 .. MaxRuns :
          ImageLoaded(r) => StagesAsOrdered(runs'[r].stages, editorStore)]_vars

\* a finished export that applied the main chain (sepia) and then the blur alone
C18_Witness ==
    \E r \in 1 .. MaxRuns :
        /\ runs[r].pc = "done"
        /\ runs[r].result = "exported"
        /\ Len(runs[r].stages) = 4
        /\ runs[r].stages[2] = Stage("filter", <<Primitive("sepia", Q(1, 2))>>)
        /\ runs[r].stages[3].stage = "blur"

\* C19: the buffers of an export are handed over one at a time in slice order,
\* hand-off i+1 starts only after hand-off i has completed and after the 300 ms delay
\* that follows it; no delay follows the last hand-off, an export of a single buffer
\* has no delay, and the success notification comes only after the last hand-off
C19_HandOffsPacedInOrder ==
    \A r \in 1 .. MaxRuns :
        LET run == runs[r]
        IN  /\ run.attempts = UpTo(Len(run.attempts))
            /\ run.delays = UpTo(Len(run.delays))
            /\ Len(run.attempts) <= Len(run.delivered) + 1
            /\ Len(run.attempts) <= Len(run.delays) + 1
            /\ Len(run.delays) <= Len(run.delivered)
            /\ run.pc = "done" => Len(run.delays) < Len(run.attempts) \/ run.attempts = <<>>
            /\ (run.pc = "done" /\ Len(run.attempts) = 1) => run.delays = <<>>
            /\ run.successes > 0 => (run.pc = "done" /\ run.delivered = run.attempts)

\* the centre of a rectangle
CentreOf(c) ==
    [x |-> QAdd(c.x, QDiv(c.width, I(2))), y |-> QAdd(c.y, QDiv(c.height, I(2)))]

\* every corner of the rectangle c is inside the CropBounds b (c.width and c.height may be
\* of either sign: a drag can leave a crop with a negative size behind)
CornersInside(c, b) ==
    /\ QGe(c.x, b.minX) /\ QLe(c.x, b.maxX)
    /\ QGe(QAdd(c.x, c.width), b.minX) /\ QLe(QAdd(c.x, c.width), b.maxX)
    /\ QGe(c.y, b.minY) /\ QLe(c.y, b.maxY)
    /\ QGe(QAdd(c.y, c.height), b.minY) /\ QLe(QAdd(c.y, c.height), b.maxY)

\* C20: picking an aspect ratio r while the crop lies inside the image bounds re-derives the
\* crop: the new crop has width / height = r, keeps the centre of the old crop and lies
\* inside the image bounds; picking 'free' leaves the crop rectangle as it was
C20_AspectChangeRederivesCrop ==
    [][\A ratio \in AspectChoices :
          HandleAspectRatioChange(ratio) =>
              IF ratio = "free"
              THEN editorStore'.cropArea = editorStore.cropArea
              ELSE CornersInside(editorStore.cropArea, CropBoundsOf(editor.imageBounds)) =>
                      /\ QDiv(editorStore'.cropArea.width, editorStore'.cropArea.height)
                            = ASPECT_RATIO_VALUES[ratio]
                      /\ CentreOf(editorStore'.cropArea) = CentreOf(editorStore.cropArea)
                      /\ CornersInside(editorStore'.cropArea, CropBoundsOf(editor.imageBounds))]_vars

\* a crop that was shortened from its top edge (100 x 95, centre (50, 52.5)) and then locked
\* to 16:9: 100 x 56.25 around the same centre, inside the image bounds
C20_Witness ==
    /\ editorStore.cropAspectRatio = "16:9"
    /\ ~editor.isDraggingCrop
    /\ drags > 0
    /\ editorStore.cropArea = Rect(Zero, Q(195, 8), Hundred, Q(225, 4))
    /\ CentreOf(editorStore.cropArea) = [x |-> I(50), y |-> Q(105, 2)]
    /\ CornersInside(editorStore.cropArea, CropBoundsOf(editor.imageBounds))

\* what a free resize with the handle `type` keeps of the crop `start` captured at drag
\* start: the opposite edge or corner, the other dimension for a single-edge handle, and
\* a size of at least 10 x 10
FreeResizeKeeps(type, start, new) ==
    /\ type \in {"n", "ne", "nw"} => QAdd(new.y, new.height) = QAdd(start.y, start.height)
    /\ type \in {"s", "se", "sw"} => new.y = start.y
    /\ type \in {"w", "nw", "sw"} => QAdd(new.x, new.width) = QAdd(start.x, start.width)
    /\ type \in {"e", "ne", "se"} => new.x = start.x
    /\ type \in {"n", "s"} => new.width = start.width /\ new.x = start.x
    /\ type \in {"e", "w"} => new.height = start.height /\ new.y = start.y
    /\ QGe(new.width, I(10))
    /\ QGe(new.height, I(10))

\* a start crop of at least 10 x 10 inside the bounds b
ResizableStart(start, b) ==
    /\ QGe(start.width, I(10))
    /\ QGe(start.height, I(10))
    /\ InsideBounds(start, b)

FrameBounds == [minX |-> Zero, minY |-> Zero, maxX |-> Hundred, maxY |-> Hundred]

\* C21: in free aspect mode, for each resize handle and every pointer delta, when the crop
\* captured at drag start is inside the bounds and at least 10 x 10, a pointer-move leaves
\* the edge or corner opposite the dragged handle where it was at drag start, a single-edge
\* handle leaves the other dimension unchanged, and the new width and height are >= 10
\* (editor and splitter)
C21_FreeResizeAnchorsOpposite ==
    [][/\ \A client \in PointerMoves :
              ( /\ HandleCropDrag(client)
                /\ editor.isDraggingCrop /\ editor.containerRef
                /\ editor.dragType \in ResizeHandles
                /\ editorStore.cropAspectRatio = "free"
                /\ ResizableStart(editor.cropStart, CropBoundsOf(editor.imageBounds)) )
              => FreeResizeKeeps(editor.dragType, editor.cropStart, editorStore'.cropArea)
       /\ \A client \in PointerMoves :
              ( /\ SplitterHandleCropDrag(client)
                /\ splitter.isDraggingCrop /\ splitterStore.imageUrl # NullStr
                /\ splitter.dragType \in ResizeHandles
                /\ ResizableStart(splitter.cropStart, FrameBounds) )
              => FreeResizeKeeps(splitter.dragType, splitter.cropStart, splitterStore'.cropArea)
      ]_vars

\* the editor's n handle was dragged down on a crop that had been narrowed to 10 wide: the
\* top edge moved, the bottom edge, the left edge and the width stayed; and the splitter's
\* w handle moved the left edge of a crop that had been cut to 10 high
C21_Witness ==
    \/ /\ editor.isDraggingCrop /\ editor.dragType = "n" /\ lastPointerEvent = "pointermove"
       /\ editorStore.cropAspectRatio = "free"
       /\ editor.cropStart.width = I(10)
       /\ QGt(editorStore.cropArea.y, editor.cropStart.y)
       /\ QAdd(editorStore.cropArea.y, editorStore.cropArea.height)
            = QAdd(editor.cropStart.y, editor.cropStart.height)
       /\ editorStore.cropArea.width = I(10)
    \/ /\ splitter.isDraggingCrop /\ splitter.dragType = "w" /\ lastPointerEvent = "pointermove"
       /\ splitter.cropStart.height = I(10)
       /\ QGt(splitterStore.cropArea.x, splitter.cropStart.x)
       /\ QAdd(splitterStore.cropArea.x, splitterStore.cropArea.width)
            = QAdd(splitter.cropStart.x, splitter.cropStart.width)

\* the corner of the rectangle c diagonally opposite the handle `type`
OppositeCorner(type, c) ==
    [x |-> IF type \in {"nw", "sw"} THEN QAdd(c.x, c.width) ELSE c.x,
     y |-> IF type \in {"ne", "nw"} THEN QAdd(c.y, c.height) ELSE c.y]

\* the step is a pointer-move of a corner drag with a locked aspect ratio that the
\* editor's handleCropDrag turns into a crop update
LockedCornerUpdate(client) ==
    /\ HandleCropDrag(client)
    /\ editor.isDraggingCrop /\ editor.containerRef
    /\ editor.dragType \in CornerHandles
    /\ editorStore.cropAspectRatio # "free"

\* C22: with a locked aspect ratio and a corner handle, for every pointer delta and every
\* crop captured at drag start that lies inside the image bounds, the corner diagonally
\* opposite the dragged handle is where it was at drag start after the update
C22_LockedCornerKeepsAnchor ==
    [][\A client \in CornerPointerMoves :
          ( /\ LockedCornerUpdate(client)
            /\ CornersInside(editor.cropStart, CropBoundsOf(editor.imageBounds)) )
          => OppositeCorner(editor.dragType, editorStore'.cropArea)
               = OppositeCorner(editor.dragType, editor.cropStart)]_vars

\* a 16:9 crop was pulled in from its nw handle: the crop is smaller than at drag start
\* and its bottom-right corner is where it was
C22_Witness ==
    /\ editor.isDraggingCrop /\ editor.dragType = "nw" /\ lastPointerEvent = "pointermove"
    /\ editorStore.cropAspectRatio = "16:9"
    /\ CornersInside(editor.cropStart, CropBoundsOf(editor.imageBounds))
    /\ QLt(editorStore.cropArea.width, editor.cropStart.width)
    /\ QGt(editorStore.cropArea.x, editor.cropStart.x)
    /\ QGt(editorStore.cropArea.y, editor.cropStart.y)
    /\ OppositeCorner("nw", editorStore.cropArea) = OppositeCorner("nw", editor.cropStart)

\* the driving delta of a locked corner drag as the larger-magnitude of the x delta and
\* the y delta pre-scaled by the ratio
LargerScaledDelta(delta, ratio) ==
    IF QGt(QAbs(delta.x), QAbs(QMul(delta.y, ratio))) THEN delta.x ELSE QMul(delta.y, ratio)

\* C23: with a locked aspect ratio r and a corner handle, the driving delta is the
\* larger-magnitude of the pointer's x delta and its y delta pre-scaled by r: the x delta
\* drives exactly when |dx| > |dy * r|, otherwise dy * r drives
C23_DrivingDeltaIsLargerScaled ==
    [][\A client \in CornerPointerMoves :
          LockedCornerUpdate(client) =>
              LET delta == PointerDelta(client, editor.dragStart, editor.rect)
                  ratio == ASPECT_RATIO_VALUES[editorStore.cropAspectRatio]
              IN  DiagonalDelta(delta, ratio) = LargerScaledDelta(delta, ratio)]_vars

\* every component of the rectangle c is in [0, 100]
ComponentsInPercent(c) ==
    /\ QGe(c.x, Zero) /\ QLe(c.x, Hundred)
    /\ QGe(c.y, Zero) /\ QLe(c.y, Hundred)
    /\ QGe(c.width, Zero) /\ QLe(c.width, Hundred)
    /\ QGe(c.height, Zero) /\ QLe(c.height, Hundred)

\* C24: step 1 of the export converts the container-relative crop to image-relative
\* percent clamped into [0, 100]: for every crop with components in 0..100 and every
\* image-bounds rectangle with positive width and height, each of relCropX, relCropY,
\* relCropW and relCropH lies in [0, 100]
C24_RelCropInPercent ==
    [][\A r \in 1 .. MaxRuns :
          ( /\ ImageLoaded(r)
            /\ ComponentsInPercent(editorStore.cropArea)
            /\ QGt(editor.imageBounds.width, Zero)
            /\ QGt(editor.imageBounds.height, Zero) )
          => ComponentsInPercent(runs'[r].rel)]_vars

\* the crop the editor writes for the pointer position client, from what startCropDrag
\* captured (cropStart, dragStart, the handle) and the bounds and lock of the drag
EditorCropAt(client) ==
    CropDragResult(editor.dragType,
                   PointerDelta(client, editor.dragStart, editor.rect),
                   editor.cropStart,
                   editor.imageBounds,
                   ASPECT_RATIO_VALUES[editorStore.cropAspectRatio])

\* the same for the splitter
SplitterCropAt(client) ==
    SplitterStoredCrop(SplitterDragResult(splitter.dragType,
                                          PointerDelta(client, splitter.dragStart, SplitterRect),
                                          splitter.cropStart))

\* C25: during one crop drag with unchanged image bounds and aspect lock, the crop written
\* on a pointer-move depends only on the crop captured at drag start, the pointer position
\* at drag start and the current pointer position: whatever pointer-moves came before,
\* the crop after a pointer-move to p is the one the captured values give for p
C25_DragCropFromCapturedStart ==
    /\ [][/\ \A client \in CornerPointerMoves :
                 ( /\ HandleCropDrag(client)
                   /\ editor.isDraggingCrop /\ editor.containerRef )
                 => editorStore'.cropArea = EditorCropAt(client)
          /\ \A client \in CornerPointerMoves :
                 ( /\ SplitterHandleCropDrag(client)
                   /\ splitter.isDraggingCrop /\ splitterStore.imageUrl # NullStr )
                 => splitterStore'.cropArea = SplitterCropAt(client)]_vars
    /\ []( (editor.isDraggingCrop /\ lastPointerEvent = "pointermove")
             => \E p \in CornerPointerMoves : editorStore.cropArea = EditorCropAt(p) )
    /\ []( (splitter.isDraggingCrop /\ lastPointerEvent = "pointermove")
             => \E p \in CornerPointerMoves : splitterStore.cropArea = SplitterCropAt(p) )

\* a 1:1 crop is being dragged from its se handle and the pointer is back where a small
\* move puts it: the crop is the one that move gives from the captured crop, larger than
\* the captured crop and smaller than what the far moves give
C25_Witness ==
    /\ editor.isDraggingCrop /\ editor.dragType = "se" /\ lastPointerEvent = "pointermove"
    /\ editorStore.cropAspectRatio = "1:1"
    /\ editorStore.cropArea = EditorCropAt([x |-> 288, y |-> 156])
    /\ QGt(editorStore.cropArea.width, editor.cropStart.width)
    /\ EditorCropAt([x |-> 288, y |-> 156]) # EditorCropAt([x |-> 720, y |-> -360])
    /\ EditorCropAt([x |-> 288, y |-> 156]) # EditorCropAt([x |-> -240, y |-> 600])

\* the pointer delta points away from the corner opposite the handle `type`
AwayFromAnchor(type, delta) ==
    CASE type = "ne" -> QLe(delta.y, Zero) /\ QGe(delta.x, Zero)
      [] type = "nw" -> QLe(delta.y, Zero) /\ QLe(delta.x, Zero)
      [] type = "se" -> QGe(delta.y, Zero) /\ QGe(delta.x, Zero)
      [] type = "sw" -> QGe(delta.y, Zero) /\ QLe(delta.x, Zero)
      [] OTHER       -> FALSE

\* C26: with a locked aspect ratio and a corner handle, moving the pointer away from the
\* anchored corner never shrinks the crop: the resulting width is >= the width captured
\* at drag start, for a start crop that has the locked ratio and lies inside the bounds
C26_AwayFromAnchorNeverShrinks ==
    [][\A client \in CornerPointerMoves :
          ( /\ LockedCornerUpdate(client)
            /\ AwayFromAnchor(editor.dragType,
                              PointerDelta(client, editor.dragStart, editor.rect))
            /\ QDiv(editor.cropStart.width, editor.cropStart.height)
                 = ASPECT_RATIO_VALUES[editorStore.cropAspectRatio]
            /\ CornersInside(editor.cropStart, CropBoundsOf(editor.imageBounds)) )
          => QGe(editorStore'.cropArea.width, editor.cropStart.width)]_vars

RECURSIVE SumOfSizes(_)
SumOfSizes(sizes) ==
    IF sizes = <<>> THEN Zero ELSE QAdd(Head(sizes), SumOfSizes(Tail(sizes)))

SizesInRange(sizes) ==
    /\ SumOfSizes(sizes) = Hundred
    /\ \A k \in 1 .. Len(sizes) : sizes[k] \notin {NaN, Infinity, NegInfinity} /\ QGe(sizes[k], I(10))

\* the call has a size at index and one after it, and the size after it would end
\* below 10 once the size at index is moved by delta and held within 10 .. 90
FollowingBelowMin(sizes, index, delta) ==
    /\ index >= 0
    /\ index < Len(sizes) - 1
    /\ delta # NaN
    /\ LET moved == IF delta = Infinity THEN I(90)
                    ELSE IF delta = NegInfinity THEN I(10)
                    ELSE QMax(I(10), QMin(I(90), QAdd(sizes[index + 1], delta)))
       IN  QLt(QSub(sizes[index + 2], QSub(moved, sizes[index + 1])), I(10))

\* C27: from equal sizes, after any updateRowHeight and updateColumnWidth calls with
\* any index and any delta, the row heights sum to 100, the column widths sum to 100,
\* every height and width is at least 10, and a call that would leave the following
\* row or column below 10 changes neither of the two sizes.
C27_GridSizesKeepSumAndMin ==
    /\ SizesInRange(gridStore.rowHeights)
    /\ SizesInRange(gridStore.columnWidths)
    /\ \A index \in SizeIndexes, delta \in SizeDeltas :
           /\ FollowingBelowMin(gridStore.rowHeights, index, delta)
              => updateSize(gridStore.rowHeights, index, delta) = gridStore.rowHeights
           /\ FollowingBelowMin(gridStore.columnWidths, index, delta)
              => updateSize(gridStore.columnWidths, index, delta) = gridStore.columnWidths

\* the first of three rows has taken 20 from the second, which is left too small to
\* give 20 more, and the first of two columns was stopped at 90 with the second at 10
C27_Witness ==
    /\ gridStore.rowHeights = <<Q(160, 3), Q(40, 3), Q(100, 3)>>
    /\ FollowingBelowMin(gridStore.rowHeights, 0, I(20))
    /\ gridStore.columnWidths = <<I(90), I(10)>>

\* the cells that cover grid position (row, col)
CellsCovering(cells, row, col) ==
    {k \in 1 .. Len(cells) :
        /\ cells[k].row <= row /\ row < cells[k].row + cells[k].rowSpan
        /\ cells[k].col <= col /\ col < cells[k].col + cells[k].colSpan}

\* C28: from the initial grid of 1x1 cells, after any deleteCell calls on existing
\* cells, every position (row, col) of the grid is covered by exactly one remaining
\* cell.
C28_EveryPositionCoveredOnce ==
    \A row \in 1 .. gridStore.rows, col \in 1 .. gridStore.columns :
        Cardinality(CellsCovering(gridStore.cells, row, col)) = 1

\* an export run has started and has not finished
RunActive(r) == runs[r].pc \notin {"idle", "done"}

\* C29: the editor's exporting flag is true in every state in which an export run has
\* started and not yet finished, also when handleExport is invoked again while an
\* earlier run is in flight, and false once no run is active.
C29_ExportingFlagTracksRuns ==
    editor.isExporting <=> (\E r \in DOMAIN runs : RunActive(r))

\* C30: for useDragHandler and useDragHandlerCumulative, over any startDrag,
\* pointer-move, mouseup, touchend and unmount events, onMove is invoked only between
\* a startDrag and the end of that drag, onEnd is invoked exactly once per drag
\* session, and after the session ends none of the four document listeners remains.
C30_DragSessionCallbacks ==
    /\ ~dragHandler.onMoveOutside
    /\ dragHandler.session => dragHandler.onEndCalls = 0
    /\ (dragHandler.ended /\ ~dragHandler.session)
          => /\ dragHandler.onEndCalls = 1
             /\ dragHandler.listeners \cap DragListeners = {}

\* a drag that moved has ended by the unmount of its component
C30_Witness ==
    /\ dragHandler.ended
    /\ ~dragHandler.session
    /\ ~dragHandler.mounted
    /\ dragHandler.moved
    /\ dragHandler.lastDelta = [x |-> 5, y |-> 3]
    /\ dragHandler.onEndCalls = 1

\* C10: in both stores, after any rotateClockwise, rotateCounterClockwise and
\* setZoom(v), rotation is one of 0, 90, 180, 270 and 1 <= zoom <= 3;
\* rotateClockwise takes 270 to 0 and rotateCounterClockwise takes 0 to 270.
C10_RotationAndZoomInRange ==
    /\ editorStore.rotation \in Rotations
    /\ splitterStore.rotation \in Rotations
    /\ NumLe(I(1), editorStore.zoom) /\ NumLe(editorStore.zoom, I(3))
    /\ NumLe(I(1), splitterStore.zoom) /\ NumLe(splitterStore.zoom, I(3))
    /\ editorStore.rotation = 270 => RotateCwValue(editorStore.rotation) = 0
    /\ editorStore.rotation = 0 => RotateCcwValue(editorStore.rotation) = 270
    /\ splitterStore.rotation = 270 => RotateCwValue(splitterStore.rotation) = 0
    /\ splitterStore.rotation = 0 => RotateCcwValue(splitterStore.rotation) = 270

====
